---------------------------- MODULE Spec2Model ----------------------------
(***************************************************************************)
(* Model of the voice chatbot's streaming relay: one RealtimeClient        *)
(* (src/realtime_client.py) bridged to one client WebSocket by the         *)
(* websocket_endpoint handler (src/server.py).                             *)
(*                                                                         *)
(* Two asyncio tasks run per call: the Gateway's receive loop and the      *)
(* RealtimeClient's handle_response loop.  asyncio switches tasks only at  *)
(* an await, so every action below is the code between two awaits of one   *)
(* task; gw_pc and ev_pc name the await each task is suspended at.         *)
(*                                                                         *)
(* Text is a sequence of tokens; the termination marker is the two-token   *)
(* sequence Marker, so that it can arrive split over two deltas.  Audio    *)
(* is a sequence of bytes 0..255 and base64 text a sequence of sextet      *)
(* indices 0..63 with Pad for '='.                                         *)
(***************************************************************************)
EXTENDS Integers, Sequences, FiniteSets, TLC

\* ------------------------------------------------------------------ bounds

\* Inputs of one session: upstream events the event loop consumes plus
\* inbound frames the browser client sends.
MaxInputs == 4
\* Bytes in one audio chunk of the codec specification.
MaxBytes == 3
\* Calls a caller makes on one client when it drives it method by method.
MaxCalls == 4
\* largest days-past-due value of a stored record, either side of zero
MaxDPD == 3
\* start-call requests the process takes
MaxStarts == 2
\* WebSockets the process accepts
MaxSockets == 2

\* ------------------------------------------------------------- text helpers

Space == " "
Marker == <<"[END_", "CONVERSATION]">>

RECURSIVE LStrip(_)
LStrip(s) == IF s # <<>> /\ Head(s) = Space THEN LStrip(Tail(s)) ELSE s

RECURSIVE RStrip(_)
RStrip(s) ==
    IF s # <<>> /\ s[Len(s)] = Space
    THEN RStrip(SubSeq(s, 1, Len(s) - 1))
    ELSE s

\* str.strip()
Strip(s) == RStrip(LStrip(s))

\* `m in s` for strings
Contains(s, m) ==
    \E i \in 1..(Len(s) + 1) :
        /\ i + Len(m) - 1 <= Len(s)
        /\ SubSeq(s, i, i + Len(m) - 1) = m

\* json.dumps of a str: the text between double quotes
JsonDumps(s) == <<"\"", s, "\"">>

\* ----------------------------------------------------------------- base64

Pad == 64

\* b64encode that forgets to shift the last sextet of a two-byte tail
RECURSIVE B64EncodeNoShift(_)
B64EncodeNoShift(b) ==
    IF Len(b) = 0 THEN <<>>
    ELSE IF Len(b) = 1 THEN
        << b[1] \div 4, (b[1] % 4) * 16, Pad, Pad >>
    ELSE IF Len(b) = 2 THEN
        << b[1] \div 4,
           (b[1] % 4) * 16 + (b[2] \div 16),
           b[2] % 16,
           Pad >>
    ELSE
        << b[1] \div 4,
           (b[1] % 4) * 16 + (b[2] \div 16),
           (b[2] % 16) * 4 + (b[3] \div 64),
           b[3] % 64 >>
        \o B64EncodeNoShift(SubSeq(b, 4, Len(b)))

\* base64.b64encode: three bytes to four sextets, the tail padded with '='
RECURSIVE B64Encode(_)
B64Encode(b) ==
    IF Len(b) = 0 THEN <<>>
    ELSE IF Len(b) = 1 THEN
        << b[1] \div 4, (b[1] % 4) * 16, Pad, Pad >>
    ELSE IF Len(b) = 2 THEN
        << b[1] \div 4,
           (b[1] % 4) * 16 + (b[2] \div 16),
           (b[2] % 16) * 4,
           Pad >>
    ELSE
        << b[1] \div 4,
           (b[1] % 4) * 16 + (b[2] \div 16),
           (b[2] % 16) * 4 + (b[3] \div 64),
           b[3] % 64 >>
        \o B64Encode(SubSeq(b, 4, Len(b)))

\* What b64decode accepts: whole quads, '=' only as the last one or two
\* characters of the last quad.
B64Valid(t) ==
    /\ Len(t) % 4 = 0
    /\ \A i \in 1..Len(t) :
          t[i] = Pad =>
             /\ i >= Len(t) - 1
             /\ i = Len(t) - 1 => t[Len(t)] = Pad

\* base64.b64decode of accepted text; the unused low bits of the last
\* sextet before the padding are discarded.
RECURSIVE B64Decode(_)
B64Decode(t) ==
    IF Len(t) = 0 THEN <<>>
    ELSE IF t[3] = Pad THEN
        << t[1] * 4 + (t[2] \div 16) >>
    ELSE IF t[4] = Pad THEN
        << t[1] * 4 + (t[2] \div 16),
           (t[2] % 16) * 16 + (t[3] \div 4) >>
    ELSE
        << t[1] * 4 + (t[2] \div 16),
           (t[2] % 16) * 16 + (t[3] \div 4),
           (t[3] % 4) * 64 + t[4] >>
        \o B64Decode(SubSeq(t, 5, Len(t)))


\* ------------------------------------------------------------ input domains

\* call_id tokens and tool names the upstream model may use
CallIds == {"call_1", "call_2"}
ToolNames == {"check_payment_status", "send_sms"}

\* event.transcript of a transcription-completed event
UserTranscripts == { <<Space>>, <<"hello", Space>> }

\* event.delta of a text or audio-transcript delta
TextDeltas == { <<Space>>, <<"[END_">>, Marker }

\* event.delta of an audio delta (base64 text); the second one is not
\* base64
AudioDeltas == { B64Encode(<<7>>), <<7>> }

\* payload["data"] of an inbound AudioData frame (base64 text); the second
\* one is not base64 (its padding is short).  CodecPayloads below holds the
\* payloads of the audio path's own specification.
Payloads == { B64Encode(<<255, 0>>), <<16, 31, Pad>> }

\* Inbound frames the handler cannot read: text that is not JSON, and an
\* AudioData frame without its data field
MalformedFrames == { [kind |-> "not_json"], [kind |-> "AudioData"] }

\* Audio chunks of the codec specification and the payloads that carry
\* them: the canonical encoding of each chunk, and the same text with a
\* spare low bit set in the last sextet before the padding.
ByteSamples == {0, 129, 255}
ByteStrings == UNION { [1..n -> ByteSamples] : n \in 0..MaxBytes }
WithSpareBit(t) ==
    IF Len(t) > 0 /\ t[Len(t)] = Pad
    THEN LET k == IF t[Len(t) - 1] = Pad THEN Len(t) - 2 ELSE Len(t) - 1
         IN  [t EXCEPT ![k] = t[k] + 1]
    ELSE t
CodecPayloads ==
    { B64Encode(b) : b \in ByteStrings }
        \cup { WithSpareBit(B64Encode(b)) : b \in ByteStrings }

\* the stored records of the tool sub-protocol's own specification: every
\* days-past-due value within the bound, and a record without one
DPDRecords ==
    { [Debtor_Name |-> "A", DPD |-> n] : n \in (0 - MaxDPD)..MaxDPD }
        \cup { [Debtor_Name |-> "A"] }

\* event.arguments of a function_call_arguments.done event, parsed: what
\* the model fills in for the tool's one parameter
ArgumentPayloads == { [DPD |-> 0], [DPD |-> 5] }

\* the payload of the events of the whole-session specification
SessionPayloads == { [DPD |-> 0] }

\* session_store[call_id]['call_metadata']
CustomerRecords ==
    { [Debtor_Name |-> "A", DPD |-> 0],
      [Debtor_Name |-> "A", DPD |-> 3],
      [Debtor_Name |-> "A"] }

NoEvent == [type |-> "none"]
NoFrame == [kind |-> "none"]
\* a local that holds nothing
NoText == <<>>
NoBytes == <<>>
NoResult == "none"

\* What connect() can raise to its caller: the ValueError of its own
\* configuration test, or what the upstream library raises for a failed
\* handshake or session update (a ConnectionError subclass, or not).
NoExc == "none"
ConfigError == "ValueError"
UpstreamErrors == {"ConnectionRefusedError", "OpenAIError"}
\* isinstance(e, ConnectionError)
IsConnectionError(e) == e = "ConnectionRefusedError"

\* ------------------------------------------------------------------- state

VARIABLES
    \* RealtimeClient fields
    connection_manager, connection, connected, transcript, chat_history,
    responding, conversation_done, customer_data,
    \* handle_response: its position and locals
    ev_pc, event, pending_tool_calls, assistant_message, result,
    \* websocket_endpoint: its position and locals
    gw_pc, payload, audio_bytes,
    \* the upstream connection is open (handshake done, not yet closed)
    upstream_open,
    \* what has been observed of the session so far
    n_events, frames_in, gw_ops, gw_sent, ev_sent, cb_calls, outstanding,
    \* what the Gateway has done on the client WebSocket, and the exception
    \* that has left the running call (connect(), or a client method)
    ws_sent, exc,
    \* server.py: the session store, what start_call has answered, the
    \* connect_websocket tasks it has created, and the WebSocket handlers
    MOCK_MODE, session_store, http_responses, tasks, handlers,
    \* collekto_data_fetcher.py: the last call of run_ltfs_flow made by
    \* itself, with how its REST steps ended and its result
    ltfs_run,
    \* app_gcp.py: the browser side's WSClient and what it has shown
    ws_client, ui,
    \* create_response has sent a response.create since the flag was last
    \* cleared
    requested

conn_vars == <<connection_manager, connection, connected, upstream_open>>
text_vars == <<transcript, chat_history>>
flag_vars == <<responding, conversation_done>>
client_vars == <<conn_vars, text_vars, flag_vars, customer_data>>
ev_vars == <<ev_pc, event, pending_tool_calls, assistant_message, result>>
ev_obs == <<n_events, ev_sent, cb_calls>>
gw_vars == <<gw_pc, payload, audio_bytes>>
gw_obs == <<frames_in, gw_ops, gw_sent, ws_sent, exc>>
host_vars ==
    <<MOCK_MODE, session_store, http_responses, tasks, handlers, ltfs_run>>
wsc_vars == <<ws_client, ui>>
vars == <<client_vars, ev_vars, ev_obs, gw_vars, gw_obs, outstanding,
          host_vars, wsc_vars,
          requested>>

\* RealtimeClient.__init__: a client that has made no connection, and
\* nothing observed yet
NewFields ==
    /\ connection_manager = FALSE
    /\ connection = FALSE
    /\ connected = FALSE
    /\ transcript = <<>>
    /\ chat_history = <<>>
    /\ responding = FALSE
    /\ conversation_done = FALSE
    /\ ev_pc = "off"
    /\ event = NoEvent
    /\ pending_tool_calls = [c \in {} |-> ""]
    /\ assistant_message = NoText
    /\ result = NoResult
    /\ payload = NoFrame
    /\ audio_bytes = NoBytes
    /\ upstream_open = FALSE
    /\ n_events = 0
    /\ frames_in = <<>>
    /\ gw_ops = <<>>
    /\ gw_sent = <<>>
    /\ ev_sent = <<>>
    /\ cb_calls = <<>>
    /\ outstanding = 0
    /\ ws_sent = <<>>
    /\ exc = NoExc
    /\ requested = FALSE

\* RealtimeClient(session_data = ...) with a stored customer record
NewClient == NewFields /\ customer_data \in CustomerRecords

\* `session_store = {}`: the process has taken no request yet
NoCalls ==
    /\ session_store = <<>>
    /\ http_responses = <<>>
    /\ tasks = {}
    /\ handlers = <<>>
    /\ ltfs_run = [made |-> FALSE]

\* The host process as far as one session is concerned: no call started
HostIdle == NoCalls /\ MOCK_MODE = FALSE

\* WSClient.__init__
NewWSClient ==
    /\ ws_client = [connected |-> FALSE, closing |-> FALSE, pc |-> "off",
                    stop_pc |-> "off", read |-> 0]
    /\ ui = <<>>

\* websocket_endpoint has constructed its client and is about to await
\* client.connect().
Init == NewClient /\ gw_pc = "connect" /\ HostIdle /\ NewWSClient

\* ------------------------------------------------------ upstream messages

AppendMsg(chunk) ==
    [type |-> "input_audio_buffer.append", audio |-> B64Encode(chunk)]
CommitMsg == [type |-> "input_audio_buffer.commit"]
ResponseCreateMsg == [type |-> "response.create"]
\* a function_call_output item that does not carry the call's id
FunctionCallOutputMsgNoId(cid, res) ==
    [type |-> "conversation.item.create", item_type |-> "function_call_output",
     call_id |-> "", output |-> JsonDumps(res)]

FunctionCallOutputMsg(cid, res) ==
    [type |-> "conversation.item.create", item_type |-> "function_call_output",
     call_id |-> cid, output |-> JsonDumps(res)]

\* Frames the Gateway sends on the client WebSocket: send_text's and
\* send_audio's frames, the StopAudio frame, and the close of the socket.
TextFrameInData(text) == [kind |-> "Text", data |-> text]

TextFrame(text) == [kind |-> "Text", text |-> text]

AudioDataFrame(audio) == [kind |-> "AudioData", data |-> B64Encode(audio)]

StopAudioFrame == [kind |-> "StopAudio"]

CloseOp == [kind |-> "close"]

\* ----------------------------------------------------------------- tools

\* a tool that takes every value up to zero as paid
check_payment_status_upto(DPD) ==
    IF DPD <= 0 THEN "payment completed" ELSE "payment not completed"

check_payment_status(DPD) ==
    IF DPD = 0 THEN "payment completed" ELSE "payment not completed"

\* args.get("DPD", 0)
GetDPD(args) == IF "DPD" \in DOMAIN args THEN args.DPD ELSE 0

\* the arguments parsed from the event: json.loads(event.arguments)
ToolArgumentsFromEvent(customer, arguments) == arguments

\* `args = self.customer_data`: the stored record, whatever the event holds
ToolArguments(customer, arguments) == customer

\* a dispatch that hands every name to the one tool
DispatchNoDefault(name, args) == check_payment_status(GetDPD(args))

\* tools.tools_defined: the names of the tools offered to the model
DefinedTools == {"check_payment_status"}

\* the dispatch of handle_response
Dispatch(name, args) ==
    IF name = "check_payment_status"
    THEN check_payment_status(GetDPD(args))
    ELSE "Unknown tool"

\* --------------------------------------------- RealtimeClient, shared parts

\* is_connected()
is_connected == connected

\* create_response without the test of the flag
CreateResponseGuardNoFlag == connection

\* create_response's test: `if self.connection and not self._responding`
CreateResponseGuard == connection /\ ~responding

\* the test without the strip
HasTranscriptUnstripped(t) == t # <<>>

\* response.done's test: `if self.transcript.strip()`
HasTranscript(t) == Strip(t) # <<>>

\* the marker compared with the whole text instead of searched in it
IsConversationEndWholeText(content) == content = Marker

\* `"[END_CONVERSATION]" in assistant_message["content"]`
IsConversationEnd(content) == Contains(content, Marker)

\* every turn tagged as a user turn
MessageAsUser(role, content) == [role |-> "user", content |-> content]

\* an entry of chat_history
Message(role, content) == [role |-> role, content |-> content]


\* ------------------------------------------------- Gateway: connect (once)

\* connect(), up to `await self.connection_manager.__aenter__()`: the
\* configuration test and the upstream handshake.  A missing configuration
\* value raises ValueError before the connection manager is made; a failed
\* handshake raises after self.connection_manager is assigned and before
\* self.connection is.  Either is re-raised and leaves websocket_endpoint,
\* which calls connect() outside its try.
ConnectOpen ==
    /\ gw_pc = "connect"
    /\ \/ /\ connection_manager' = TRUE
          /\ connection' = TRUE
          /\ upstream_open' = TRUE
          /\ gw_pc' = "session_update"
          /\ UNCHANGED <<connected, exc>>
       \/ /\ connected' = FALSE
          /\ exc' = ConfigError
          /\ gw_pc' = "raised"
          /\ UNCHANGED <<connection_manager, connection, upstream_open>>
       \/ /\ connection_manager' = TRUE
          /\ connected' = FALSE
          /\ exc' \in UpstreamErrors
          /\ gw_pc' = "raised"
          /\ UNCHANGED <<connection, upstream_open>>
    /\ UNCHANGED <<text_vars, flag_vars, customer_data, ev_vars, ev_obs,
                   payload, audio_bytes, frames_in, gw_ops, gw_sent, ws_sent,
                   outstanding>>
    /\ UNCHANGED <<host_vars, wsc_vars, requested>>

\* connect(), from `await self.connection.session.update(...)` on: mark the
\* client connected and start handle_response as a task; or re-raise.
ConnectSessionUpdate ==
    /\ gw_pc = "session_update"
    /\ IF upstream_open
       THEN /\ connected' = TRUE
            /\ ev_pc' = "wait"
            /\ gw_pc' = "recv"
            /\ UNCHANGED exc
       ELSE /\ connected' = FALSE
            /\ exc' \in UpstreamErrors
            /\ gw_pc' = "raised"
            /\ UNCHANGED ev_pc
    /\ UNCHANGED <<connection_manager, connection, upstream_open, text_vars,
                   flag_vars, customer_data, event, pending_tool_calls,
                   assistant_message, result, ev_obs, payload, audio_bytes,
                   frames_in, gw_ops, gw_sent, ws_sent, outstanding>>
    /\ UNCHANGED <<host_vars, wsc_vars, requested>>

\* The upstream side closes the connection: every later send on it raises
\* and the event stream ends.
UpstreamClose ==
    /\ upstream_open
    /\ upstream_open' = FALSE
    /\ UNCHANGED <<connection_manager, connection, connected, text_vars,
                   flag_vars, customer_data, ev_vars, ev_obs, gw_vars, gw_obs,
                   outstanding>>
    /\ UNCHANGED <<host_vars, wsc_vars, requested>>

\* ------------------------------------------------ Gateway: the receive loop

\* Inputs the session has taken so far
Inputs == n_events + Len(frames_in)

\* the check of the flag left out: always back to receive_text()
AfterFrameNoCheck == "recv"

\* `if client.is_conversation_done()` after a frame: send StopAudio to the
\* client, or go back to receive_text().
AfterFrame == IF conversation_done THEN "stop_send" ELSE "recv"

\* An AudioData frame: decode payload["data"] and call append_input_audio,
\* which sends if self.connection is set.  b64decode raises on data that
\* is not base64, into the endpoint's `except Exception`.
RecvAudioData(data) ==
    /\ gw_pc = "recv"
    /\ Inputs < MaxInputs
    /\ payload' = [kind |-> "AudioData", data |-> data]
    /\ gw_sent' = <<>>
    /\ IF B64Valid(data)
       THEN /\ frames_in' = Append(frames_in, "AudioData")
            /\ audio_bytes' = B64Decode(data)
            /\ gw_ops' = Append(gw_ops, "append_input_audio")
            /\ gw_pc' = IF connection THEN "append_send" ELSE AfterFrame
       ELSE /\ frames_in' = Append(frames_in, "Malformed")
            /\ gw_pc' = "cleanup"
            /\ UNCHANGED <<audio_bytes, gw_ops>>
    /\ UNCHANGED <<client_vars, ev_vars, ev_obs, ws_sent, exc, outstanding>>
    /\ UNCHANGED <<host_vars, wsc_vars, requested>>

\* A frame that is not JSON (json.loads raises) or an AudioData frame
\* without "data" (payload["data"] raises KeyError): into the endpoint's
\* `except Exception`, which logs and falls through to the finally.
RecvMalformed(f) ==
    /\ gw_pc = "recv"
    /\ Inputs < MaxInputs
    /\ frames_in' = Append(frames_in, "Malformed")
    /\ payload' = IF f.kind = "not_json" THEN payload ELSE f
    /\ gw_sent' = <<>>
    /\ gw_pc' = "cleanup"
    /\ UNCHANGED <<client_vars, ev_vars, ev_obs, audio_bytes, gw_ops, ws_sent,
                   exc, outstanding>>
    /\ UNCHANGED <<host_vars, wsc_vars, requested>>

\* append_input_audio's `await self.connection.send(...)` returns, or raises
\* into the endpoint's `except Exception`.
AppendSend ==
    /\ gw_pc = "append_send"
    /\ IF upstream_open
       THEN /\ gw_sent' = Append(gw_sent, AppendMsg(audio_bytes))
            /\ gw_pc' = AfterFrame
       ELSE /\ gw_pc' = "cleanup"
            /\ UNCHANGED gw_sent
    /\ UNCHANGED <<client_vars, ev_vars, ev_obs, payload, audio_bytes,
                   frames_in, gw_ops, ws_sent, exc, outstanding>>
    /\ UNCHANGED <<host_vars, wsc_vars, requested>>

\* A StopAudio frame: call commit_audio, which sends if self.connection is
\* set.
RecvStopAudio ==
    /\ gw_pc = "recv"
    /\ Inputs < MaxInputs
    /\ frames_in' = Append(frames_in, "StopAudio")
    /\ payload' = [kind |-> "StopAudio"]
    /\ audio_bytes' = NoBytes
    /\ gw_sent' = <<>>
    /\ IF connection
       THEN /\ gw_ops' = Append(gw_ops, "commit_audio")
            /\ gw_pc' = "commit_send"
       ELSE /\ gw_ops' = gw_ops \o <<"commit_audio", "create_response">>
            /\ gw_pc' = AfterFrame
    /\ UNCHANGED <<client_vars, ev_vars, ev_obs, ws_sent, exc, outstanding>>
    /\ UNCHANGED <<host_vars, wsc_vars, requested>>

\* commit_audio's send returns, and the endpoint goes on to call
\* create_response, which tests and sets the flag before its own await; or
\* the send raises into the endpoint's `except Exception`.
CommitSend ==
    /\ gw_pc = "commit_send"
    /\ IF upstream_open
       THEN /\ gw_sent' = Append(gw_sent, CommitMsg)
            /\ gw_ops' = Append(gw_ops, "create_response")
            /\ IF CreateResponseGuard
               THEN /\ responding' = TRUE
                    /\ gw_pc' = "create_send"
               ELSE /\ gw_pc' = AfterFrame
                    /\ UNCHANGED responding
       ELSE /\ gw_pc' = "cleanup"
            /\ UNCHANGED <<gw_sent, gw_ops, responding>>
    /\ UNCHANGED <<conn_vars, text_vars, conversation_done, customer_data,
                   ev_vars, ev_obs, payload, audio_bytes, frames_in, ws_sent,
                   exc, outstanding>>
    /\ UNCHANGED <<host_vars, wsc_vars, requested>>

\* create_response's `await self.connection.send({"type": "response.create"})`
\* returns, or raises and the flag is cleared.
GwCreateSend ==
    /\ gw_pc = "create_send"
    /\ IF upstream_open
       THEN /\ gw_sent' = Append(gw_sent, ResponseCreateMsg)
            /\ outstanding' = outstanding + 1
            /\ requested' = TRUE
            /\ UNCHANGED responding
       ELSE /\ responding' = FALSE
            /\ requested' = FALSE
            /\ UNCHANGED <<gw_sent, outstanding>>
    /\ gw_pc' = AfterFrame
    /\ UNCHANGED <<conn_vars, text_vars, conversation_done, customer_data,
                   ev_vars, ev_obs, payload, audio_bytes, frames_in, gw_ops,
                   ws_sent, exc>>
    /\ UNCHANGED <<host_vars, wsc_vars>>

\* `await websocket.send_json({"kind": "StopAudio"})` returns or raises.
StopSend ==
    /\ gw_pc = "stop_send"
    /\ \/ /\ ws_sent' = Append(ws_sent, StopAudioFrame)
          /\ gw_pc' = "close"
       \/ /\ gw_pc' = "cleanup"
          /\ UNCHANGED ws_sent
    /\ UNCHANGED <<client_vars, ev_vars, ev_obs, payload, audio_bytes,
                   frames_in, gw_ops, gw_sent, exc, outstanding>>
    /\ UNCHANGED <<host_vars, wsc_vars, requested>>

\* `await websocket.close()`, then break (or a raise): on to the finally.
CloseSocket ==
    /\ gw_pc = "close"
    /\ ws_sent' = Append(ws_sent, CloseOp)
    /\ gw_pc' = "cleanup"
    /\ UNCHANGED <<client_vars, ev_vars, ev_obs, payload, audio_bytes,
                   frames_in, gw_ops, gw_sent, exc, outstanding>>
    /\ UNCHANGED <<host_vars, wsc_vars, requested>>

\* receive_text() raises WebSocketDisconnect.
ClientDisconnect ==
    /\ gw_pc = "recv"
    /\ gw_pc' = "cleanup"
    /\ UNCHANGED <<client_vars, ev_vars, ev_obs, payload, audio_bytes, gw_obs,
                   outstanding>>
    /\ UNCHANGED <<host_vars, wsc_vars, requested>>

\* finally: client.disconnect() up to its await of __aexit__.
DisconnectStart ==
    /\ gw_pc = "cleanup"
    /\ gw_pc' = IF connection_manager THEN "aexit" ELSE "done"
    /\ connected' = IF connection_manager THEN connected ELSE FALSE
    /\ UNCHANGED <<connection_manager, connection, upstream_open, text_vars,
                   flag_vars, customer_data, ev_vars, ev_obs, payload,
                   audio_bytes, gw_obs, outstanding>>
    /\ UNCHANGED <<host_vars, wsc_vars, requested>>

\* disconnect() without its try: what __aexit__ raises reaches the caller
\* and self.connected keeps its value
DisconnectEndRaises ==
    /\ gw_pc = "aexit"
    /\ exc' \in UpstreamErrors
    /\ gw_pc' = "done"
    /\ UNCHANGED <<client_vars, ev_vars, ev_obs, payload, audio_bytes,
                   frames_in, gw_ops, gw_sent, ws_sent, outstanding>>
    /\ UNCHANGED <<host_vars, wsc_vars, requested>>

\* __aexit__ returns with the upstream connection closed, or raises and
\* the exception is logged, the connection left as it was; then
\* self.connected = False and disconnect() returns.
DisconnectEnd ==
    /\ gw_pc = "aexit"
    /\ \/ upstream_open' = FALSE
       \/ UNCHANGED upstream_open
    /\ connected' = FALSE
    /\ gw_pc' = "done"
    /\ UNCHANGED <<connection_manager, connection, text_vars, flag_vars,
                   customer_data, ev_vars, ev_obs, payload, audio_bytes,
                   gw_obs, outstanding>>
    /\ UNCHANGED <<host_vars, wsc_vars, requested>>

\* ------------------------------------------- handle_response: the event loop

\* the handler that lets the loop go on after an exception
LoopExceptContinues == "wait"

\* `except Exception`: the exception is logged and handle_response
\* returns False; the loop is over.
LoopExcept == "ended"

\* an event loop that runs from the construction of the client on, and
\* takes events as soon as the upstream connection is open
ConsumeBeforeStart(e) ==
    /\ ev_pc \in {"off", "wait"}
    /\ upstream_open
    /\ Inputs < MaxInputs
    /\ event' = e
    /\ n_events' = n_events + 1
    /\ ev_sent' = <<>>

\* `async for event in connection` yields the next event.
Consume(e) ==
    /\ ev_pc = "wait"
    /\ upstream_open
    /\ Inputs < MaxInputs
    /\ event' = e
    /\ n_events' = n_events + 1
    /\ ev_sent' = <<>>

\* Pending entries after `pending_tool_calls[cid] = {...}`
WithEntry(p, cid, name) ==
    [c \in (DOMAIN p) \cup {cid} |-> IF c = cid THEN name ELSE p[c]]

\* the entry is not deleted
WithoutEntryKept(p, cid) == p

\* Pending entries after `del pending_tool_calls[cid]`
WithoutEntry(p, cid) == [c \in (DOMAIN p) \ {cid} |-> p[c]]

\* "error": logged, `continue`.
EvError ==
    /\ Consume([type |-> "error"])
    /\ cb_calls' = <<>>
    /\ UNCHANGED <<client_vars, ev_pc, pending_tool_calls, assistant_message,
                   result, gw_vars, gw_obs, outstanding>>
    /\ UNCHANGED <<host_vars, wsc_vars, requested>>

\* "conversation.item.input_audio_transcription.completed": a non-empty
\* stripped transcript is appended as a user turn, then asyncio.sleep(0.1).
EvTranscription(t) ==
    /\ Consume([type |-> "transcription.completed", transcript |-> t])
    /\ cb_calls' = <<>>
    /\ IF Strip(t) # <<>>
       THEN /\ chat_history' = Append(chat_history, Message("user", Strip(t)))
            /\ ev_pc' = "debounce"
       ELSE UNCHANGED <<chat_history, ev_pc>>
    /\ UNCHANGED <<conn_vars, transcript, flag_vars, customer_data,
                   pending_tool_calls, assistant_message, result, gw_vars,
                   gw_obs, outstanding>>
    /\ UNCHANGED <<host_vars, wsc_vars, requested>>

\* The sleep is over: create_response tests and sets the flag, then awaits
\* its send.
EvDebounceEnd ==
    /\ ev_pc = "debounce"
    /\ IF CreateResponseGuard
       THEN /\ responding' = TRUE
            /\ ev_pc' = "create_send"
       ELSE /\ ev_pc' = "wait"
            /\ UNCHANGED responding
    /\ UNCHANGED <<event, conn_vars, text_vars, conversation_done,
                   customer_data,
                   pending_tool_calls, assistant_message, result, ev_obs,
                   gw_vars, gw_obs, outstanding>>
    /\ UNCHANGED <<host_vars, wsc_vars, requested>>

\* create_response's send returns, or raises and the flag is cleared.
EvCreateSend ==
    /\ ev_pc = "create_send"
    /\ IF upstream_open
       THEN /\ ev_sent' = Append(ev_sent, ResponseCreateMsg)
            /\ outstanding' = outstanding + 1
            /\ requested' = TRUE
            /\ UNCHANGED responding
       ELSE /\ responding' = FALSE
            /\ requested' = FALSE
            /\ UNCHANGED <<ev_sent, outstanding>>
    /\ ev_pc' = "wait"
    /\ UNCHANGED <<event, conn_vars, text_vars, conversation_done,
                   customer_data,
                   pending_tool_calls, assistant_message, result, n_events,
                   cb_calls, gw_vars, gw_obs>>
    /\ UNCHANGED <<host_vars, wsc_vars>>

\* "response.audio.delta": decode and await the audio handler; b64decode
\* raises on a delta that is not base64.
EvAudioDelta(d) ==
    /\ Consume([type |-> "response.audio.delta", delta |-> d])
    /\ IF B64Valid(d)
       THEN /\ cb_calls' =
                  <<[handler |-> "audio_handler", arg |-> B64Decode(d)]>>
            /\ ev_pc' = "audio_cb"
       ELSE /\ cb_calls' = <<>>
            /\ ev_pc' = LoopExcept
    /\ UNCHANGED <<client_vars, pending_tool_calls, assistant_message, result,
                   gw_vars, gw_obs, outstanding>>
    /\ UNCHANGED <<host_vars, wsc_vars, requested>>

\* The client WebSocket is open: the endpoint is in its receive loop and
\* has not closed the socket.
ClientSocketUsable ==
    gw_pc \in {"recv", "append_send", "commit_send", "create_send",
               "stop_send", "close"}

\* The client WebSocket is closed: the endpoint has closed it or has
\* returned.  Between the two, in the endpoint's finally, the socket is open
\* after an error and closed after a disconnect of the client.
ClientSocketGone ==
    \/ gw_pc \in {"done", "raised"}
    \/ \E i \in 1..Len(ws_sent) : ws_sent[i] = CloseOp

\* send_audio returns: its send_json has sent the AudioData frame, or has
\* raised on a socket that is gone and the exception was logged.
EvAudioHandlerEnd ==
    /\ ev_pc = "audio_cb"
    /\ \/ /\ ~ClientSocketGone
          /\ ws_sent' = Append(ws_sent, AudioDataFrame(cb_calls[1].arg))
       \/ /\ ~ClientSocketUsable
          /\ UNCHANGED ws_sent
    /\ ev_pc' = "wait"
    /\ UNCHANGED <<event, client_vars, pending_tool_calls, assistant_message,
                   result, ev_obs, gw_vars, frames_in, gw_ops, gw_sent, exc,
                   outstanding>>
    /\ UNCHANGED <<host_vars, wsc_vars, requested>>

\* "response.text.delta" / "response.audio_transcript.delta"
EvTextDelta(d) ==
    /\ Consume([type |-> "response.text.delta", delta |-> d])
    /\ cb_calls' = <<>>
    /\ transcript' = transcript \o d
    /\ UNCHANGED <<conn_vars, chat_history, flag_vars, customer_data, ev_pc,
                   pending_tool_calls, assistant_message, result, gw_vars,
                   gw_obs, outstanding>>
    /\ UNCHANGED <<host_vars, wsc_vars, requested>>

\* One request fewer is unanswered once a response.done has arrived.
Answered(n) == IF n > 0 THEN n - 1 ELSE 0

\* "response.done": a non-empty stripped transcript is appended as an
\* assistant turn and handed to the response handler, which is awaited.
EvResponseDone ==
    /\ Consume([type |-> "response.done"])
    /\ outstanding' = Answered(outstanding)
    /\ IF HasTranscript(transcript)
       THEN /\ assistant_message' = Strip(transcript)
            /\ chat_history' =
                  Append(chat_history, Message("assistant", Strip(transcript)))
            /\ cb_calls' =
                  <<[handler |-> "response_handler",
                     arg |-> Strip(transcript)]>>
            /\ ev_pc' = "text_cb"
       ELSE /\ cb_calls' = <<>>
            /\ UNCHANGED <<assistant_message, chat_history, ev_pc>>
    /\ UNCHANGED <<conn_vars, transcript, flag_vars, customer_data,
                   pending_tool_calls, result, gw_vars, gw_obs>>
    /\ UNCHANGED <<host_vars, wsc_vars, requested>>

\* send_text returns: its send_json has sent the Text frame, or has raised
\* on a socket that is gone and the exception was logged.  Then the rest of
\* the response.done branch.
EvResponseHandlerEnd ==
    /\ ev_pc = "text_cb"
    /\ \/ /\ ~ClientSocketGone
          /\ ws_sent' = Append(ws_sent, TextFrame(cb_calls[1].arg))
       \/ /\ ~ClientSocketUsable
          /\ UNCHANGED ws_sent
    /\ conversation_done' = IsConversationEnd(assistant_message)
    /\ transcript' = <<>>
    /\ responding' = FALSE
    /\ requested' = FALSE
    /\ assistant_message' = NoText
    /\ ev_pc' = "wait"
    /\ UNCHANGED <<event, conn_vars, chat_history, customer_data,
                   pending_tool_calls, result, ev_obs, gw_vars, frames_in,
                   gw_ops, gw_sent, exc, outstanding>>
    /\ UNCHANGED <<host_vars, wsc_vars>>

\* "response.output_item.added" with a function_call item
EvFunctionCallAdded(cid, name) ==
    /\ Consume([type |-> "response.output_item.added", call_id |-> cid,
                name |-> name])
    /\ cb_calls' = <<>>
    /\ pending_tool_calls' = WithEntry(pending_tool_calls, cid, name)
    /\ UNCHANGED <<client_vars, ev_pc, assistant_message, result, gw_vars,
                   gw_obs, outstanding>>
    /\ UNCHANGED <<host_vars, wsc_vars, requested>>

\* "response.function_call_arguments.done": a pending call is dispatched
\* with the stored customer record as its arguments, and the output item's
\* send is awaited; an unknown call_id is ignored.
EvArgumentsDone(cid, arguments) ==
    /\ Consume([type |-> "response.function_call_arguments.done",
                call_id |-> cid, arguments |-> arguments])
    /\ cb_calls' = <<>>
    /\ IF cid \in DOMAIN pending_tool_calls
       THEN /\ result' = Dispatch(pending_tool_calls[cid],
                                  ToolArguments(customer_data, arguments))
            /\ ev_pc' = "output_send"
       ELSE UNCHANGED <<result, ev_pc>>
    /\ UNCHANGED <<client_vars, pending_tool_calls, assistant_message, gw_vars,
                   gw_obs, outstanding>>
    /\ UNCHANGED <<host_vars, wsc_vars, requested>>

\* `await connection.conversation.item.create(...)` returns, or raises and
\* ends the loop.
EvOutputSend ==
    /\ ev_pc = "output_send"
    /\ IF upstream_open
       THEN /\ ev_sent' =
                  Append(ev_sent, FunctionCallOutputMsg(event.call_id, result))
            /\ ev_pc' = "response_send"
       ELSE /\ ev_pc' = LoopExcept
            /\ UNCHANGED ev_sent
    /\ UNCHANGED <<client_vars, event, pending_tool_calls, assistant_message,
                   result, n_events, cb_calls, gw_vars, gw_obs, outstanding>>
    /\ UNCHANGED <<host_vars, wsc_vars, requested>>

\* `await connection.response.create()` returns and the pending entry is
\* deleted, or it raises and ends the loop.
EvResponseSend ==
    /\ ev_pc = "response_send"
    /\ IF upstream_open
       THEN /\ ev_sent' = Append(ev_sent, ResponseCreateMsg)
            /\ outstanding' = outstanding + 1
            /\ pending_tool_calls' =
                  WithoutEntry(pending_tool_calls, event.call_id)
            /\ ev_pc' = "wait"
            /\ result' = NoResult
       ELSE /\ ev_pc' = LoopExcept
            /\ UNCHANGED <<ev_sent, outstanding, pending_tool_calls, result>>
    /\ UNCHANGED <<event, client_vars, assistant_message, n_events, cb_calls,
                   gw_vars,
                   gw_obs>>
    /\ UNCHANGED <<host_vars, wsc_vars, requested>>

\* The upstream connection is closed: the `async for` is over.
EvStreamEnd ==
    /\ ev_pc = "wait"
    /\ ~upstream_open
    /\ ev_pc' = "ended"
    /\ UNCHANGED <<client_vars, event, pending_tool_calls, assistant_message,
                   result, ev_obs, gw_vars, gw_obs, outstanding>>
    /\ UNCHANGED <<host_vars, wsc_vars, requested>>

\* ------------------------------------- RealtimeClient called method by method

\* A caller other than websocket_endpoint holds the client and awaits its
\* methods one after the other, in any order.  gw_pc is then the caller's
\* position: "idle" before its first call, and the position a call ends
\* at ("recv" after connect() returned, "raised" after it raised, "done"
\* after disconnect() returned) until the next call.
Between == {"idle", "recv", "raised", "done"}

\* what connection.send raises on a closed connection
SendError == "ConnectionClosed"

\* chunk arguments of append_input_audio, content arguments of
\* send_user_message_content
Chunks == { <<7>> }
Contents == { <<>>, <<"text">> }

\* a user item that drops the content it was given
UserItemMsgNoContent(content) ==
    [type |-> "conversation.item.create", item_type |-> "message",
     role |-> "user", content |-> <<>>]

\* the synthetic user item of send_user_message_content
UserItemMsg(content) ==
    [type |-> "conversation.item.create", item_type |-> "message",
     role |-> "user", content |-> content]

\* A call may start.
CanCall == gw_pc \in Between /\ Len(gw_ops) < MaxCalls

\* connect() is called on a client that holds no connection manager: its
\* `if self.connection_manager` is false and its body follows.
CallConnect ==
    /\ CanCall
    /\ ~connection_manager
    /\ gw_ops' = Append(gw_ops, "connect")
    /\ gw_sent' = <<>>
    /\ exc' = NoExc
    /\ gw_pc' = "connect"
    /\ UNCHANGED <<client_vars, ev_vars, ev_obs, payload, audio_bytes,
                   frames_in, ws_sent, outstanding>>
    /\ UNCHANGED <<host_vars, wsc_vars, requested>>

\* disconnect() is called.
CallDisconnect ==
    /\ CanCall
    /\ gw_ops' = Append(gw_ops, "disconnect")
    /\ gw_sent' = <<>>
    /\ exc' = NoExc
    /\ gw_pc' = "cleanup"
    /\ UNCHANGED <<client_vars, ev_vars, ev_obs, payload, audio_bytes,
                   frames_in, ws_sent, outstanding>>
    /\ UNCHANGED <<host_vars, wsc_vars, requested>>

\* append_input_audio(chunk) is called: `if self.connection`, then the
\* await of the send.
CallAppendInputAudio(chunk) ==
    /\ CanCall
    /\ gw_ops' = Append(gw_ops, "append_input_audio")
    /\ gw_sent' = <<>>
    /\ exc' = NoExc
    /\ audio_bytes' = chunk
    /\ gw_pc' = IF connection THEN "api_append_send" ELSE "idle"
    /\ UNCHANGED <<client_vars, ev_vars, ev_obs, payload, frames_in, ws_sent,
                   outstanding>>
    /\ UNCHANGED <<host_vars, wsc_vars, requested>>

\* append_input_audio's send returns, or raises to the caller.
ApiAppendSend ==
    /\ gw_pc = "api_append_send"
    /\ IF upstream_open
       THEN /\ gw_sent' = Append(gw_sent, AppendMsg(audio_bytes))
            /\ UNCHANGED exc
       ELSE /\ exc' = SendError
            /\ UNCHANGED gw_sent
    /\ gw_pc' = "idle"
    /\ UNCHANGED <<client_vars, ev_vars, ev_obs, payload, audio_bytes,
                   frames_in, gw_ops, ws_sent, outstanding>>
    /\ UNCHANGED <<host_vars, wsc_vars, requested>>

\* send_user_message_content(content) is called: `if content and
\* self.connection` the item's send is awaited; otherwise create_response
\* is called at once and tests and sets the flag before its own await.
CallSendUserMessageContent(content) ==
    /\ CanCall
    /\ gw_sent' = <<>>
    /\ exc' = NoExc
    /\ payload' = [kind |-> "content", data |-> content]
    /\ IF content # <<>> /\ connection
       THEN /\ gw_ops' = Append(gw_ops, "send_user_message_content")
            /\ gw_pc' = "api_item_send"
            /\ UNCHANGED responding
       ELSE /\ gw_ops' =
                  gw_ops \o <<"send_user_message_content", "create_response">>
            /\ IF CreateResponseGuard
               THEN /\ responding' = TRUE
                    /\ gw_pc' = "api_create_send"
               ELSE /\ gw_pc' = "idle"
                    /\ UNCHANGED responding
    /\ UNCHANGED <<conn_vars, text_vars, conversation_done, customer_data,
                   ev_vars, ev_obs, audio_bytes, frames_in, ws_sent,
                   outstanding>>
    /\ UNCHANGED <<host_vars, wsc_vars, requested>>

\* The item's send returns and create_response is called, which tests and
\* sets the flag before its own await; or the send raises to the caller.
ApiItemSend ==
    /\ gw_pc = "api_item_send"
    /\ IF upstream_open
       THEN /\ gw_sent' = Append(gw_sent, UserItemMsg(payload.data))
            /\ gw_ops' = Append(gw_ops, "create_response")
            /\ IF CreateResponseGuard
               THEN /\ responding' = TRUE
                    /\ gw_pc' = "api_create_send"
               ELSE /\ gw_pc' = "idle"
                    /\ UNCHANGED responding
            /\ UNCHANGED exc
       ELSE /\ exc' = SendError
            /\ gw_pc' = "idle"
            /\ UNCHANGED <<gw_sent, gw_ops, responding>>
    /\ UNCHANGED <<conn_vars, text_vars, conversation_done, customer_data,
                   ev_vars, ev_obs, payload, audio_bytes, frames_in, ws_sent,
                   outstanding>>
    /\ UNCHANGED <<host_vars, wsc_vars, requested>>

\* create_response's send returns, or raises and the flag is cleared; then
\* send_user_message_content returns True.
ApiCreateSend ==
    /\ gw_pc = "api_create_send"
    /\ IF upstream_open
       THEN /\ gw_sent' = Append(gw_sent, ResponseCreateMsg)
            /\ outstanding' = outstanding + 1
            /\ requested' = TRUE
            /\ UNCHANGED responding
       ELSE /\ responding' = FALSE
            /\ requested' = FALSE
            /\ UNCHANGED <<gw_sent, outstanding>>
    /\ gw_pc' = "idle"
    /\ UNCHANGED <<conn_vars, text_vars, conversation_done, customer_data,
                   ev_vars, ev_obs, payload, audio_bytes, frames_in, gw_ops,
                   ws_sent, exc>>
    /\ UNCHANGED <<host_vars, wsc_vars>>

\* -------------------------------------- start_call and the session store

\* The body of a start-call request, as far as the resolver reads it
Requests == { [loan_id |-> "L1", system_id |-> "S1"] }

\* Keys that RealtimeClient.__init__ and get_system_prompt read from the
\* stored record
PromptKeys ==
    {"Debtor_Name", "Gender", "EMI_Amount", "Payment_Due_Date", "Product"}

\* What a resolver hands back: nothing, an empty list, the response of the
\* fetch with the caller's ids
NoData == "none"
EmptyList == "[]"
Fetched == "response.json()"

\* Stored call metadata: a dict with some keys (mock mode), or the pair
\* (loan_data, disposition_data) that run_ltfs_flow returns
DictOf(keys) ==
    [shape |-> "dict", keys |-> keys, loan_data |-> NoData,
     disposition_data |-> NoData]

TupleOf(loan_data, disposition_data) ==
    [shape |-> "tuple", keys |-> {}, loan_data |-> loan_data,
     disposition_data |-> disposition_data]

\* `{}`
EmptyDict == DictOf({})

\* A resolver call returns a value or raises
Returns(value) == [raised |-> NoExc, value |-> value]
Raises(e) == [raised |-> e, value |-> NoData]

\* fetch_additional_customer_info: the first matching row of data.csv as a
\* dict, or {} when no row matches or reading raises
fetch_additional_customer_info ==
    { Returns(DictOf(PromptKeys \cup {"DPD"})), Returns(EmptyDict) }

\* How one REST step of the resolver ends: with its result; with the error
\* the step declares (AuthenticationError, APIError); or with an exception
\* of the requests library (no connection, timeout), which the step does
\* not catch
StepEnds == {"ok", "declared", "requests"}

StepOutcomes ==
    [authenticate : StepEnds, get_loan_by_id : StepEnds,
     get_disposition_by_id : StepEnds, default_authenticate : StepEnds,
     default_get_loan_by_id : StepEnds,
     default_get_disposition_by_id : StepEnds]

\* run_ltfs_flow's `except (AuthenticationError, APIError)`: authenticate
\* with the default credentials, then read LOAN_ID, a name the module does
\* not define
Fallback(o, loan_data) ==
    IF o.default_authenticate = "requests"
    THEN Raises("ConnectionError")
    ELSE IF o.default_authenticate = "declared"
         THEN Returns(TupleOf(loan_data, EmptyList))
         ELSE Raises("NameError")

\* run_ltfs_flow: authenticate, fetch the loan, fetch the disposition; on a
\* declared error, the fallback.  loan_data keeps what the primary path
\* had fetched.
run_ltfs_flow(o) ==
    IF o.authenticate = "requests"
    THEN Raises("ConnectionError")
    ELSE IF o.authenticate = "declared"
    THEN Fallback(o, EmptyList)
    ELSE IF o.get_loan_by_id = "requests"
    THEN Raises("ConnectionError")
    ELSE IF o.get_loan_by_id = "declared"
    THEN Fallback(o, EmptyList)
    ELSE IF o.get_disposition_by_id = "requests"
    THEN Raises("ConnectionError")
    ELSE IF o.get_disposition_by_id = "declared"
    THEN Fallback(o, Fetched)
    ELSE Returns(TupleOf(Fetched, Fetched))

\* The REST steps run_ltfs_flow makes, in order, each with the credentials
\* or ids it is made with: the caller's or the module's defaults.  The
\* fallback makes no step after its authenticate: reading LOAN_ID raises.
Step(fn, with) == [fn |-> fn, with |-> with]

PrimarySteps(o) ==
    <<Step("authenticate", "caller")>> \o
    ( IF o.authenticate # "ok"
      THEN <<>>
      ELSE <<Step("get_loan_by_id", "caller")>> \o
           ( IF o.get_loan_by_id # "ok"
             THEN <<>>
             ELSE <<Step("get_disposition_by_id", "caller")>> ) )

\* How the primary path ends: as its first step that does not end well
PrimaryEnd(o) ==
    IF o.authenticate # "ok" THEN o.authenticate
    ELSE IF o.get_loan_by_id # "ok" THEN o.get_loan_by_id
    ELSE o.get_disposition_by_id

StepsMade(o) ==
    PrimarySteps(o) \o
    ( IF PrimaryEnd(o) = "declared"
      THEN <<Step("authenticate", "default")>>
      ELSE <<>> )

\* run_ltfs_flow called by itself (as its tests call it), with REST steps
\* that end as o says
RunLtfsFlow(o) ==
    /\ ltfs_run' = [made |-> TRUE, ends |-> o, result |-> run_ltfs_flow(o)]
    /\ UNCHANGED <<MOCK_MODE, session_store, http_responses, tasks, handlers,
                   wsc_vars, client_vars, ev_vars, ev_obs, gw_vars, gw_obs,
                   outstanding, requested>>

\* The primary path of the resolver has failed
PrimaryFails(o) ==
    \/ o.authenticate # "ok"
    \/ o.get_loan_by_id # "ok"
    \/ o.get_disposition_by_id # "ok"

\* connect_websocket tasks of a request whose resolver raised, had the task
\* been created before the resolver is called
TaskCreatedFirst(call_id) == {call_id}

\* connect_websocket tasks of a request whose resolver raised: create_task
\* comes after the metadata write, and is not reached
TaskAfterRaise(call_id) == {}

\* start_call, from the request to its answer (it awaits nothing): a new
\* call id, the entry with an empty call_metadata, the resolver, then the
\* one write of call_metadata, the connect_websocket task and the response;
\* an exception of the resolver leaves start_call after the first write.
StartCall(data, resolver, more_info) ==
    /\ Len(http_responses) < MaxStarts
    /\ LET call_id == Len(session_store) + 1
           entry == [customer |-> data, call_metadata |-> EmptyDict,
                     disposition |-> EmptyDict]
       IN  IF more_info.raised # NoExc
           THEN /\ session_store' = Append(session_store, entry)
                /\ tasks' = tasks \cup TaskAfterRaise(call_id)
                /\ http_responses' =
                      Append(http_responses,
                             [call_id |-> call_id, status |-> "raised",
                              raised |-> more_info.raised,
                              resolver |-> resolver,
                              more_info |-> NoData])
           ELSE /\ session_store' =
                      Append(session_store,
                             [entry EXCEPT
                                 !.call_metadata = more_info.value])
                /\ tasks' = tasks \cup {call_id}
                /\ http_responses' =
                      Append(http_responses,
                             [call_id |-> call_id, status |-> "COMPLETED",
                              raised |-> NoExc,
                              resolver |-> resolver,
                              more_info |-> more_info.value])
    /\ UNCHANGED <<MOCK_MODE, handlers, wsc_vars, client_vars, ev_vars,
                   ev_obs, gw_vars, gw_obs, outstanding, requested, ltfs_run>>

\* start_call with MOCK_COLLEKTO_API set: the resolver is the lookup in
\* data.csv
StartCallMock(data) ==
    /\ MOCK_MODE
    /\ \E more_info \in fetch_additional_customer_info :
          StartCall(data,
                    IF more_info.value = EmptyDict
                    THEN "no_match" ELSE "found",
                    more_info)

\* Two outcomes of the REST steps that give the caller of run_ltfs_flow the
\* same: the primary path fails in both or in neither, and the call raises
\* the same or returns the same
SameCall(p, o) ==
    /\ PrimaryFails(p) = PrimaryFails(o)
    /\ run_ltfs_flow(p).raised = run_ltfs_flow(o).raised
    /\ run_ltfs_flow(p).raised = NoExc =>
          run_ltfs_flow(p).value = run_ltfs_flow(o).value

\* One outcome of the REST steps for each thing a call of run_ltfs_flow can
\* give its caller
LtfsCalls ==
    { o : o \in { q \in StepOutcomes :
                    q = (CHOOSE p \in StepOutcomes : SameCall(p, q)) } }

\* start_call without it: the resolver is run_ltfs_flow
StartCallLtfs(data) ==
    /\ ~MOCK_MODE
    /\ \E o \in LtfsCalls :
          StartCall(data,
                    IF PrimaryFails(o) THEN "failed" ELSE "found",
                    run_ltfs_flow(o))

\* ------------------------------- websocket_endpoint, one handler per socket

\* A call id that no start_call of this process has made (one of an
\* earlier process, or a made-up one)
StaleId == 0

\* Call ids a client can know: those start_call has answered with
DisclosedIds ==
    { http_responses[i].call_id : i \in
        { j \in 1..Len(http_responses) :
            http_responses[j].status = "COMPLETED" } }

\* `await websocket.accept()`: the handler of a new WebSocket for call_id,
\* opened by the connect_websocket task or by a client
Accepted(call_id, opener) ==
    [call_id |-> call_id, opener |-> opener, pc |-> "accepted",
     session_data |-> NoData, connected |-> FALSE, exc |-> NoExc]

\* The connect_websocket task of a call has slept and opens its WebSocket.
TaskConnect(call_id) ==
    /\ call_id \in tasks
    /\ Len(handlers) < MaxSockets
    /\ tasks' = tasks \ {call_id}
    /\ handlers' = Append(handlers, Accepted(call_id, "task"))
    /\ UNCHANGED <<MOCK_MODE, session_store, http_responses, wsc_vars,
                   client_vars, ev_vars, ev_obs, gw_vars, gw_obs,
                   outstanding, requested, ltfs_run>>

\* A client opens a WebSocket for a call id it knows, or for a stale one.
ClientOpen(call_id) ==
    /\ call_id \in DisclosedIds \cup {StaleId}
    /\ Len(handlers) < MaxSockets
    /\ handlers' = Append(handlers, Accepted(call_id, "client"))
    /\ UNCHANGED <<MOCK_MODE, session_store, http_responses, tasks, wsc_vars,
                   client_vars, ev_vars, ev_obs, gw_vars, gw_obs,
                   outstanding, requested, ltfs_run>>

\* RealtimeClient.__init__ and get_system_prompt read the record by key:
\* self.customer_data["Debtor_Name"], then customer['Gender'] and the rest.
\* A tuple cannot be indexed by a string; a dict without the key raises.
InitRaises(session_data) ==
    IF session_data.shape = "tuple"
    THEN "TypeError"
    ELSE IF PromptKeys \subseteq session_data.keys
         THEN NoExc
         ELSE "KeyError"

\* websocket_endpoint from accept() to `await client.connect()`: look the
\* call id up in session_store and construct the client, outside any try.
HandlerBuild(h) ==
    /\ h \in 1..Len(handlers)
    /\ handlers[h].pc = "accepted"
    /\ LET call_id == handlers[h].call_id
       IN  IF call_id \notin DOMAIN session_store
           THEN handlers' =
                   [handlers EXCEPT ![h].pc = "raised", ![h].exc = "KeyError"]
           ELSE LET session_data == session_store[call_id].call_metadata
                IN  handlers' =
                       [handlers EXCEPT
                           ![h].session_data = session_data,
                           ![h].exc = InitRaises(session_data),
                           ![h].pc =
                               IF InitRaises(session_data) = NoExc
                               THEN "connect"
                               ELSE "raised"]
    /\ UNCHANGED <<MOCK_MODE, session_store, http_responses, tasks, wsc_vars,
                   client_vars, ev_vars, ev_obs, gw_vars, gw_obs,
                   outstanding, requested, ltfs_run>>

\* `await client.connect()` returns, or re-raises what the upstream
\* handshake raised; it is awaited outside the try.
HandlerConnect(h) ==
    /\ h \in 1..Len(handlers)
    /\ handlers[h].pc = "connect"
    /\ \/ handlers' =
             [handlers EXCEPT ![h].pc = "recv", ![h].connected = TRUE]
       \/ \E e \in UpstreamErrors :
             handlers' = [handlers EXCEPT ![h].pc = "raised", ![h].exc = e]
    /\ UNCHANGED <<MOCK_MODE, session_store, http_responses, tasks, wsc_vars,
                   client_vars, ev_vars, ev_obs, gw_vars, gw_obs,
                   outstanding, requested, ltfs_run>>

\* The receive loop ends (the client disconnects, the conversation is done,
\* or an exception is logged) and the finally has awaited disconnect().
HandlerLeave(h) ==
    /\ h \in 1..Len(handlers)
    /\ handlers[h].pc = "recv"
    /\ handlers' = [handlers EXCEPT ![h].pc = "done", ![h].connected = FALSE]
    /\ UNCHANGED <<MOCK_MODE, session_store, http_responses, tasks, wsc_vars,
                   client_vars, ev_vars, ev_obs, gw_vars, gw_obs,
                   outstanding, requested, ltfs_run>>

\* ------------------------------------------------- WSClient (src/app_gcp.py)

\* The rest of the session besides the WSClient
relay_vars ==
    <<client_vars, ev_vars, ev_obs, gw_vars, gw_obs, outstanding, host_vars,
      requested>>

\* cl.Message(content="Connection closed by server. Session ended.")
ClosingNotification ==
    [kind |-> "Message",
     content |-> "Connection closed by server. Session ended."]

\* cl.OutputAudioChunk(mimeType="audio/wav", data=base64.b64decode(audio_b64))
OutputAudioChunk(audio_b64) ==
    [kind |-> "OutputAudioChunk", data |-> B64Decode(audio_b64)]

\* cl.Message(content=f"Bot: {text}")
BotMessage(text) == [kind |-> "Message", content |-> <<"Bot: ", text>>]

\* `if data.get(key)`: the field is there and is not empty
Truthy(data, key) == key \in DOMAIN data /\ data[key] # <<>>

\* handle_stop: self.connected = False, and the notification unless the
\* client is closing already
handle_stop_client(c) == [c EXCEPT !.connected = FALSE, !.closing = TRUE]
handle_stop_ui(c, shown) ==
    IF c.closing THEN shown ELSE Append(shown, ClosingNotification)

\* The WebSocket is closed for the WSClient: the endpoint has returned or
\* raised and the server has closed the socket under it.
SocketClosedByServer == gw_pc \in {"done", "raised"}

\* WSClient.connect(call_id): the handshake the endpoint has accepted is
\* over, the flags are set and recv_loop is started as a task.
WsConnect ==
    /\ ws_client.pc = "off"
    /\ ws_client' = [ws_client EXCEPT !.connected = TRUE, !.closing = FALSE,
                                      !.pc = "iter"]
    /\ UNCHANGED <<ui, relay_vars>>

\* recv_loop takes the next message of the socket.
WsRecv ==
    /\ ws_client.pc = "iter"
    /\ ws_client.read < Len(ws_sent)
    /\ LET data == ws_sent[ws_client.read + 1]
           kind == data.kind
           taken == [ws_client EXCEPT !.read = @ + 1]
           over == [taken EXCEPT !.pc = "ended", !.connected = FALSE]
       IN  /\ data # CloseOp
           /\ IF ws_client.closing
              THEN /\ ws_client' = over
                   /\ UNCHANGED ui
              ELSE IF kind = "AudioData"
              THEN /\ ws_client' = taken
                   /\ ui' = IF Truthy(data, "data")
                            THEN Append(ui, OutputAudioChunk(data.data))
                            ELSE ui
              ELSE IF kind = "Text"
              THEN /\ ws_client' = taken
                   /\ ui' = IF Truthy(data, "data")
                            THEN Append(ui, BotMessage(data.data))
                            ELSE ui
              ELSE IF kind = "StopAudio"
              THEN /\ ws_client' = handle_stop_client(over)
                   /\ ui' = handle_stop_ui(ws_client, ui)
              ELSE /\ ws_client' = taken
                   /\ UNCHANGED ui
    /\ UNCHANGED relay_vars

\* recv_loop finds the socket closed once it has taken every message: the
\* `async for` ends (a close with a normal code), or the iteration raises
\* ConnectionClosedOK, ConnectionClosedError or another exception and the
\* handler calls handle_stop unless the client is closing; then the finally.
WsClosed ==
    /\ ws_client.pc = "iter"
    /\ \/ /\ ws_client.read < Len(ws_sent)
          /\ ws_sent[ws_client.read + 1] = CloseOp
       \/ /\ ws_client.read = Len(ws_sent)
          /\ SocketClosedByServer
    /\ LET over == [ws_client EXCEPT !.pc = "ended", !.connected = FALSE]
       IN  \/ /\ ws_client' = over
              /\ UNCHANGED ui
           \/ /\ ws_client' =
                    IF ws_client.closing THEN over ELSE handle_stop_client(over)
              /\ ui' = handle_stop_ui(ws_client, ui)
    /\ UNCHANGED relay_vars

\* send_audio's guard: `not self.ws or not self.connected or self.closing`
CanSendAudio == ws_client.connected /\ ~ws_client.closing

\* on_audio_chunk -> send_audio(audio_bytes): the AudioData frame with the
\* encoded bytes reaches the endpoint's receive_text(); or the socket is
\* closed, ws.send raises ConnectionClosed and send_audio calls handle_stop.
WsSendAudio(chunk) ==
    /\ CanSendAudio
    /\ \/ RecvAudioData(B64Encode(chunk))
       \/ /\ SocketClosedByServer
          /\ ws_client' = handle_stop_client(ws_client)
          /\ ui' = handle_stop_ui(ws_client, ui)
          /\ UNCHANGED relay_vars

\* on_end -> stop(), up to its first await: self.closing = True
WsStopStart ==
    /\ ws_client.connected
    /\ ~ws_client.closing
    /\ ws_client' = [ws_client EXCEPT !.closing = TRUE, !.stop_pc = "send"]
    /\ UNCHANGED <<ui, relay_vars>>

\* stop() has sent StopAudio and closed the socket, or one of the two has
\* raised; finally: self.connected = False and recv_task is cancelled.
WsStopEnd ==
    /\ ws_client.stop_pc = "send"
    /\ ws_client' =
          [ws_client EXCEPT
              !.stop_pc = "done",
              !.connected = FALSE,
              !.pc = IF @ = "iter" THEN "cancelled" ELSE @]
    /\ UNCHANGED <<ui, relay_vars>>

\* The StopAudio frame of stop() reaches the endpoint's receive_text().
WsStopAudioArrives ==
    /\ ws_client.stop_pc # "off"
    /\ \A i \in 1..Len(frames_in) : frames_in[i] # "StopAudio"
    /\ RecvStopAudio

\* The close of stop() reaches the endpoint: receive_text() raises
\* WebSocketDisconnect.
WsCloseArrives ==
    /\ ws_client.stop_pc = "done"
    /\ ClientDisconnect

\* ------------------------------------------------------------ specification

Next ==
    \/ ConnectOpen
    \/ ConnectSessionUpdate
    \/ UpstreamClose
    \/ \E data \in Payloads : RecvAudioData(data)
    \/ \E f \in MalformedFrames : RecvMalformed(f)
    \/ AppendSend
    \/ RecvStopAudio
    \/ CommitSend
    \/ GwCreateSend
    \/ StopSend
    \/ CloseSocket
    \/ ClientDisconnect
    \/ DisconnectStart
    \/ DisconnectEnd
    \/ EvError
    \/ \E t \in UserTranscripts : EvTranscription(t)
    \/ EvDebounceEnd
    \/ EvCreateSend
    \/ \E d \in AudioDeltas : EvAudioDelta(d)
    \/ EvAudioHandlerEnd
    \/ \E d \in TextDeltas : EvTextDelta(d)
    \/ EvResponseDone
    \/ EvResponseHandlerEnd
    \/ \E cid \in CallIds, name \in ToolNames : EvFunctionCallAdded(cid, name)
    \/ \E cid \in CallIds, a \in SessionPayloads : EvArgumentsDone(cid, a)
    \/ EvOutputSend
    \/ EvResponseSend
    \/ EvStreamEnd

Spec == Init /\ [][Next]_vars

\* The audio path alone: a client that sends only AudioData frames, with
\* every payload of CodecPayloads, and an upstream that sends no event.
NextCodec ==
    \/ ConnectOpen
    \/ ConnectSessionUpdate
    \/ UpstreamClose
    \/ \E data \in CodecPayloads : RecvAudioData(data)
    \/ AppendSend
    \/ ClientDisconnect
    \/ DisconnectStart
    \/ DisconnectEnd
    \/ EvStreamEnd

SpecCodec == Init /\ [][NextCodec]_vars

\* The tool sub-protocol alone: a session whose stored record holds any
\* days-past-due value within the bound, a client that sends no frame, and
\* an upstream that sends only function-call events, with any payload.
NextTools ==
    \/ ConnectOpen
    \/ ConnectSessionUpdate
    \/ UpstreamClose
    \/ \E cid \in CallIds, name \in ToolNames : EvFunctionCallAdded(cid, name)
    \/ \E cid \in CallIds, a \in ArgumentPayloads : EvArgumentsDone(cid, a)
    \/ EvOutputSend
    \/ EvResponseSend
    \/ EvStreamEnd

InitTools ==
    /\ NewFields
    /\ customer_data \in DPDRecords
    /\ gw_pc = "connect"
    /\ HostIdle
    /\ NewWSClient

SpecTools == InitTools /\ [][NextTools]_vars

\* The host process: start-call requests with every outcome of the
\* resolver, and WebSockets opened by the tasks start_call creates and by
\* clients, each handled up to its receive loop and out of it.
NextCall ==
    \/ \E data \in Requests : StartCallMock(data)
    \/ \E data \in Requests : StartCallLtfs(data)
    \/ \E call_id \in 1..MaxStarts : TaskConnect(call_id)
    \/ \E call_id \in 0..MaxStarts : ClientOpen(call_id)
    \/ \E h \in 1..MaxSockets : HandlerBuild(h)
    \/ \E h \in 1..MaxSockets : HandlerConnect(h)
    \/ \E h \in 1..MaxSockets : HandlerLeave(h)

\* No session of the relay is looked at: its variables keep the values of
\* a client that was never connected.
InitCall ==
    /\ NoCalls
    /\ MOCK_MODE \in BOOLEAN
    /\ NewFields
    /\ customer_data = [Debtor_Name |-> "A"]
    /\ gw_pc = "off"
    /\ NewWSClient

SpecCall == InitCall /\ [][NextCall]_vars

\* The resolver alone: run_ltfs_flow is called with every way its REST
\* steps can end.
NextLtfs == \E o \in StepOutcomes : RunLtfsFlow(o)

InitLtfs == InitCall /\ MOCK_MODE = FALSE

SpecLtfs == InitLtfs /\ [][NextLtfs]_vars

\* One session seen from the browser: the WSClient connects, sends the
\* user's audio, shows what the relay sends and stops; the upstream answers
\* with text that may end the conversation, and may close.
NextWs ==
    \/ ConnectOpen
    \/ ConnectSessionUpdate
    \/ UpstreamClose
    \/ WsConnect
    \/ WsRecv
    \/ WsClosed
    \/ \E chunk \in Chunks : WsSendAudio(chunk)
    \/ AppendSend
    \/ WsStopStart
    \/ WsStopEnd
    \/ WsStopAudioArrives
    \/ CommitSend
    \/ GwCreateSend
    \/ WsCloseArrives
    \/ StopSend
    \/ CloseSocket
    \/ DisconnectStart
    \/ DisconnectEnd
    \/ \E d \in AudioDeltas : EvAudioDelta(d)
    \/ EvAudioHandlerEnd
    \/ \E d \in TextDeltas : EvTextDelta(d)
    \/ EvResponseDone
    \/ EvResponseHandlerEnd
    \/ EvStreamEnd

InitWs ==
    /\ NewFields
    /\ customer_data = [Debtor_Name |-> "A"]
    /\ gw_pc = "connect"
    /\ HostIdle
    /\ NewWSClient

SpecWs == InitWs /\ [][NextWs]_vars

\* The steps the endpoint's task takes by itself once it is scheduled: the
\* awaits of connect(), of the sends and of disconnect() return or raise.
\* receive_text() returns only when the client has sent a frame or has gone.
GatewayTask ==
    \/ ConnectOpen
    \/ ConnectSessionUpdate
    \/ AppendSend
    \/ CommitSend
    \/ GwCreateSend
    \/ StopSend
    \/ CloseSocket
    \/ DisconnectStart
    \/ DisconnectEnd

\* The steps the handle_response task takes by itself: the sleep, the sends
\* and the callbacks return, and the end of a closed stream is seen.  The
\* next event comes only when the upstream sends one.
EventLoopTask ==
    \/ EvDebounceEnd
    \/ EvCreateSend
    \/ EvAudioHandlerEnd
    \/ EvResponseHandlerEnd
    \/ EvStreamEnd

\* A conversation up to its end: the client sends audio and stop frames or
\* disconnects, the upstream answers with text and may close.
NextLive ==
    \/ ConnectOpen
    \/ ConnectSessionUpdate
    \/ UpstreamClose
    \/ \E data \in Payloads : RecvAudioData(data)
    \/ AppendSend
    \/ RecvStopAudio
    \/ CommitSend
    \/ GwCreateSend
    \/ StopSend
    \/ CloseSocket
    \/ ClientDisconnect
    \/ DisconnectStart
    \/ DisconnectEnd
    \/ \E t \in UserTranscripts : EvTranscription(t)
    \/ EvDebounceEnd
    \/ EvCreateSend
    \/ \E d \in TextDeltas : EvTextDelta(d)
    \/ EvResponseDone
    \/ EvResponseHandlerEnd
    \/ EvStreamEnd

\* asyncio runs every task that is ready: a task whose await can return is
\* resumed.  Nothing obliges the client or the upstream to send.
SpecLive ==
    /\ Init
    /\ [][NextLive]_vars
    /\ WF_vars(GatewayTask)
    /\ WF_vars(EventLoopTask)

\* The client alone: a caller awaits connect, disconnect, append_input_audio
\* and send_user_message_content in any order, the upstream may close, and
\* the event loop sees no event but the end of its stream.
NextClient ==
    \/ CallConnect
    \/ ConnectOpen
    \/ ConnectSessionUpdate
    \/ CallDisconnect
    \/ DisconnectStart
    \/ DisconnectEnd
    \/ \E chunk \in Chunks : CallAppendInputAudio(chunk)
    \/ ApiAppendSend
    \/ \E content \in Contents : CallSendUserMessageContent(content)
    \/ ApiItemSend
    \/ ApiCreateSend
    \/ UpstreamClose
    \/ EvStreamEnd

\* The caller holds a new client and has called nothing yet.
InitClient == NewClient /\ gw_pc = "idle" /\ HostIdle /\ NewWSClient

SpecClient == InitClient /\ [][NextClient]_vars


\* ------------------------------------------------------------------ claims

\* The step in which a task calls create_response
GwCallsCreateResponse ==
    /\ Len(gw_ops') > Len(gw_ops)
    /\ gw_ops'[Len(gw_ops')] = "create_response"
EvCallsCreateResponse == ev_pc = "debounce" /\ ev_pc' # "debounce"

\* The step in which the handling of a response.done event ends
ResponseDoneHandled ==
    \/ EvResponseDone /\ ev_pc' = "wait"
    \/ EvResponseHandlerEnd

\* C1: at most one response.create request sent upstream (by create_response
\* or by the tool dispatch) is unanswered by a response.done at any time.
C1_AtMostOneOutstanding == outstanding <= 1

\* C2: the responding flag is false until the first create_response call
\* sets it, and false right after the handling of any response.done event,
\* also one that finds the transcript buffer empty.
C2_RespondingClearedByResponseDone ==
    /\ ~responding
    /\ [][(~responding /\ responding') =>
             (GwCallsCreateResponse \/ EvCallsCreateResponse)]_vars
    /\ [][ResponseDoneHandled => ~responding']_vars

\* C3: a call of create_response made while the responding flag is true
\* sends nothing (it does not even reach its send) and leaves the flag, the
\* chat history, the transcript buffer and conversation-done as they were.
C3_CreateResponseNoOpWhileResponding ==
    [][ /\ (responding /\ GwCallsCreateResponse) =>
            /\ gw_pc' # "create_send"
            /\ gw_sent' = Append(gw_sent, CommitMsg)
            /\ UNCHANGED <<responding, chat_history, transcript,
                           conversation_done, outstanding, ev_sent>>
        /\ (responding /\ EvCallsCreateResponse) =>
            /\ ev_pc' = "wait"
            /\ UNCHANGED <<responding, chat_history, transcript,
                           conversation_done, outstanding, ev_sent, gw_sent>>
      ]_vars

\* C3's case: the Gateway has called create_response for a StopAudio frame
\* while the flag was set, and is back at its receive.
C3_Witness ==
    /\ gw_pc = "recv"
    /\ responding
    /\ gw_ops # <<>>
    /\ gw_ops[Len(gw_ops)] = "create_response"
    /\ gw_sent = <<CommitMsg>>

\* The text holds the marker's two tokens next to each other.
HasMarker(text) ==
    \E i \in 1..(Len(text) - 1) :
        text[i] = "[END_" /\ text[i + 1] = "CONVERSATION]"

\* The last assistant turn of a history holds the marker.
LastAssistantTurnHasMarker(h) ==
    \E i \in 1..Len(h) :
        /\ h[i].role = "assistant"
        /\ \A j \in (i + 1)..Len(h) : h[j].role # "assistant"
        /\ HasMarker(h[i].content)

\* C4: once an assistant turn is finalized, conversation-done is true if
\* and only if the finalized text holds the marker [END_CONVERSATION].
C4_DoneIffMarker ==
    ev_pc # "text_cb" =>
        (conversation_done <=> LastAssistantTurnHasMarker(chat_history))

\* C4's case: a finalized turn that holds the marker after other text.
C4_Witness ==
    /\ ev_pc = "wait"
    /\ conversation_done
    /\ chat_history # <<>>
    /\ chat_history[Len(chat_history)].role = "assistant"
    /\ Len(chat_history[Len(chat_history)].content) > Len(Marker)


\* The calls the Gateway owes for a sequence of inbound frames
RECURSIVE ExpectedOps(_)
ExpectedOps(frames) ==
    IF frames = <<>> THEN <<>>
    ELSE (IF Head(frames) = "AudioData"
          THEN <<"append_input_audio">>
          ELSE IF Head(frames) = "StopAudio"
          THEN <<"commit_audio", "create_response">>
          ELSE <<>>)
         \o ExpectedOps(Tail(frames))

\* The Gateway is not inside the handling of a frame.
FrameHandled == gw_pc \notin {"append_send", "commit_send", "create_send"}

\* C5: the Gateway's calls follow the inbound frames in order: one
\* append_input_audio per AudioData frame, one commit_audio then one
\* create_response per StopAudio frame.
C5_OpsFollowFrames == FrameHandled => gw_ops = ExpectedOps(frames_in)

\* C6: an AudioData frame with payload P has exactly one append message
\* sent upstream, whose audio decodes to the bytes P decodes to.
C6_AppendCarriesPayloadBytes ==
    payload.kind = "AudioData" =>
        /\ Len(gw_ops) = Len(frames_in)
        /\ gw_pc = "append_send" =>
              /\ gw_sent = <<>>
              /\ B64Decode(AppendMsg(audio_bytes).audio)
                    = B64Decode(payload.data)
        /\ gw_pc \in {"recv", "stop_send"} =>
              /\ Len(gw_sent) = 1
              /\ gw_sent[1].type = "input_audio_buffer.append"
              /\ B64Decode(gw_sent[1].audio) = B64Decode(payload.data)
        /\ Len(gw_sent) <= 1

\* C6's case: a two-byte chunk has gone upstream, from a payload that is
\* not the text the client re-encodes it to.
C6_Witness ==
    /\ gw_pc = "recv"
    /\ payload.kind = "AudioData"
    /\ Len(gw_sent) = 1
    /\ Len(B64Decode(payload.data)) = 2
    /\ gw_sent[1].audio # payload.data

\* C7: a response.done handled while the transcript buffer is empty or
\* only whitespace appends no turn and does not call the text callback.
C7_EmptyResponseDoneAppendsNothing ==
    [][(EvResponseDone /\ Strip(transcript) = <<>>) =>
          /\ chat_history' = chat_history
          /\ cb_calls' = <<>>
          /\ ev_pc' = "wait"]_vars

\* C7's case: a response.done has been handled with only whitespace in the
\* buffer.
C7_Witness ==
    /\ ev_pc = "wait"
    /\ event.type = "response.done"
    /\ transcript # <<>>
    /\ chat_history = <<>>

ArgumentsDoneEvent(e, cid) ==
    /\ e.type = "response.function_call_arguments.done"
    /\ e.call_id = cid

ArgumentsDoneStep(cid) ==
    \E a \in ArgumentPayloads : EvArgumentsDone(cid, a)

\* C8: an arguments-done event whose call id has no pending entry, and so
\* the second of two arguments-done events for one call id, sends nothing
\* and changes no session state.
C8_SecondArgumentsDoneNoOp ==
    [][\A cid \in CallIds :
          ( /\ ArgumentsDoneStep(cid)
            /\ \/ cid \notin DOMAIN pending_tool_calls
               \/ ArgumentsDoneEvent(event, cid) ) =>
              /\ ev_sent' = <<>>
              /\ cb_calls' = <<>>
              /\ ev_pc' = "wait"
              /\ UNCHANGED <<client_vars, pending_tool_calls, result,
                             assistant_message, outstanding>>
      ]_vars

\* C8's case: added, arguments-done, arguments-done for one call id, the
\* last one handled.
C8_Witness ==
    /\ ev_pc = "wait"
    /\ n_events = 3
    /\ event.type = "response.function_call_arguments.done"
    /\ ev_sent = <<>>
    /\ outstanding = 1
    /\ frames_in = <<>>
    /\ chat_history = <<>>

\* The step in which the handling of an arguments-done event ends
ArgumentsDoneEnds(cid) ==
    /\ ArgumentsDoneEvent(event', cid)
    /\ \/ ArgumentsDoneStep(cid)
       \/ ev_pc \in {"output_send", "response_send"}
    /\ ev_pc' \in {"wait", "ended"}

\* An entry appears only with its added event, and goes only after the
\* output item for its call id has been sent.
PendingEntryLifetime(cid) ==
    /\ (cid \notin DOMAIN pending_tool_calls
            /\ cid \in DOMAIN pending_tool_calls') =>
          /\ event'.type = "response.output_item.added"
          /\ event'.call_id = cid
          /\ n_events' = n_events + 1
    /\ (cid \in DOMAIN pending_tool_calls
            /\ cid \notin DOMAIN pending_tool_calls') =>
          /\ ArgumentsDoneEvent(event', cid)
          /\ \E i \in 1..Len(ev_sent') :
                /\ ev_sent'[i].type = "conversation.item.create"
                /\ ev_sent'[i].call_id = cid

\* C9 as stated: the lifetime above, and no entry is pending once its
\* arguments-done event has been handled, also when a send failed.
C9_NoEntryAfterArgumentsDone ==
    [][\A cid \in CallIds :
          /\ PendingEntryLifetime(cid)
          /\ ArgumentsDoneEnds(cid) => cid \notin DOMAIN pending_tool_calls'
      ]_vars

\* C9 amended: the lifetime above; no entry is pending once its
\* arguments-done event has been handled with both sends done; a failed
\* send ends the loop and leaves the entries as they were.
C9_EntryRemovedAfterBothSends ==
    [][\A cid \in CallIds :
          /\ PendingEntryLifetime(cid)
          /\ (ArgumentsDoneEnds(cid) /\ ev_pc' = "wait") =>
                cid \notin DOMAIN pending_tool_calls'
          /\ (ArgumentsDoneEnds(cid) /\ ev_pc' = "ended") =>
                UNCHANGED pending_tool_calls
      ]_vars

\* C9's case: the output item and the response request for a call id have
\* been sent and its entry is gone.
C9_Witness ==
    /\ ev_pc = "wait"
    /\ event.type = "response.function_call_arguments.done"
    /\ Len(ev_sent) = 2
    /\ ev_sent[1].call_id = event.call_id
    /\ event.call_id \notin DOMAIN pending_tool_calls

IsPrefix(a, b) == Len(a) <= Len(b) /\ SubSeq(b, 1, Len(a)) = a

\* C10: every step keeps the chat history as a prefix of the new one and
\* appends at most one turn; a user turn comes only with a
\* transcription-completed event, an assistant turn only with a
\* response.done event.
C10_HistoryAppendOnly ==
    [][ /\ IsPrefix(chat_history, chat_history')
        /\ Len(chat_history') <= Len(chat_history) + 1
        /\ chat_history' # chat_history =>
              /\ n_events' = n_events + 1
              /\ chat_history'[Len(chat_history')].role = "user" =>
                    event'.type = "transcription.completed"
              /\ chat_history'[Len(chat_history')].role = "assistant" =>
                    event'.type = "response.done"
              /\ chat_history'[Len(chat_history')].role
                    \in {"user", "assistant"}
      ]_vars

\* C10's case: an assistant turn appended after a user turn.
C10_Witness ==
    /\ Len(chat_history) = 2
    /\ chat_history[1].role = "user"
    /\ chat_history[2].role = "assistant"

\* The step in which the Gateway ends the handling of an inbound frame:
\* the client's methods it called for the frame have returned.
FrameDone ==
    /\ gw_pc' \in {"recv", "stop_send"}
    /\ \/ gw_pc = "recv" /\ frames_in' # frames_in
       \/ gw_pc \in {"append_send", "commit_send", "create_send"}

\* The StopAudio frame and the close among what the Gateway has done on the
\* client WebSocket (the callbacks' Text and AudioData frames left out)
IsControlOp(f) == f.kind \in {"StopAudio", "close"}

ControlOps(sent) == SelectSeq(sent, IsControlOp)

\* C11: when the Gateway ends the handling of a frame with conversation-done
\* true, it goes on to send StopAudio to the client; from there it either
\* sends StopAudio and then closes the WebSocket, or its send raises on a
\* socket that is gone; it takes no further frame; and a close is always
\* preceded by the StopAudio frame.
C11_StopAudioThenClose ==
    /\ [][ /\ (FrameDone /\ conversation_done) => gw_pc' = "stop_send"
           /\ (FrameDone /\ ~conversation_done) => gw_pc' = "recv"
           /\ (gw_pc = "stop_send" /\ gw_pc' # gw_pc) =>
                 \/ /\ ws_sent' = Append(ws_sent, StopAudioFrame)
                    /\ gw_pc' = "close"
                 \/ /\ ws_sent' = ws_sent
                    /\ gw_pc' = "cleanup"
           /\ ControlOps(ws_sent') # ControlOps(ws_sent) =>
                 gw_pc \in {"stop_send", "close"}
           /\ (gw_pc = "close" /\ gw_pc' # gw_pc) =>
                 /\ ws_sent' = Append(ws_sent, CloseOp)
                 /\ gw_pc' = "cleanup"
           /\ (gw_pc \in {"stop_send", "close"}
                  \/ ControlOps(ws_sent) # <<>>) =>
                 /\ frames_in' = frames_in
                 /\ gw_ops' = gw_ops
                 /\ gw_pc' # "recv"
         ]_vars
    /\ [](/\ ControlOps(ws_sent) \in
                {<<>>, <<StopAudioFrame>>, <<StopAudioFrame, CloseOp>>}
           /\ \A i \in 1..Len(ws_sent) :
                ws_sent[i] = CloseOp => i = Len(ws_sent))

\* C11's case: a frame was handled after the marker had been seen, and the
\* client got StopAudio and then the close.
C11_Witness ==
    /\ ControlOps(ws_sent) = <<StopAudioFrame, CloseOp>>
    /\ conversation_done
    /\ frames_in # <<>>
    /\ gw_pc = "done"

\* The step in which websocket_endpoint ends, by return or by an exception
HandlerEnds ==
    /\ gw_pc \notin {"done", "raised"}
    /\ gw_pc' \in {"done", "raised"}

\* C12: every way out of the Gateway's handler, a failure inside connect()
\* included, is through the finally's call of disconnect(), and nothing
\* that disconnect() meets is raised: the handler ends only by a step of
\* disconnect(), with no exception.
C12_CleanupAlwaysDisconnects ==
    [][HandlerEnds =>
          /\ gw_pc \in {"cleanup", "aexit"}
          /\ gw_pc' = "done"
          /\ exc' = NoExc]_vars

\* A step of disconnect()
DisconnectStep == DisconnectStart \/ DisconnectEnd

\* The last two calls of the caller were both disconnect().
DisconnectedTwice ==
    /\ Len(gw_ops) >= 2
    /\ gw_ops[Len(gw_ops) - 1] = "disconnect"
    /\ gw_ops[Len(gw_ops)] = "disconnect"

\* The fields of the RealtimeClient object
ClientFields ==
    <<connection_manager, connection, connected, transcript, chat_history,
      responding, conversation_done, customer_data>>

\* C13: disconnect() raises nothing to its caller, whether __aexit__
\* returns or raises and whether or not the client ever connected; once
\* it has returned is_connected() is false; and a further call leaves
\* every field of the client as the call before left it.
C13_DisconnectIdempotent ==
    [][DisconnectStep =>
          /\ exc' = NoExc
          /\ gw_pc' \in {"aexit", "done"}
          /\ gw_pc' = "done" => ~connected'
          /\ DisconnectedTwice => UNCHANGED ClientFields
      ]_vars

\* C13's case: a connected client has been disconnected twice.
C13_Witness ==
    /\ gw_pc = "done"
    /\ DisconnectedTwice
    /\ connection_manager
    /\ connection
    /\ ~connected
    /\ "connect" \in { gw_ops[i] : i \in 1..Len(gw_ops) }

\* C14: a call of append_input_audio made while is_connected() is false
\* does not reach a send, puts no message upstream and raises nothing.
C14_AppendNoOpWhenNotConnected ==
    [][ /\ \A chunk \in Chunks :
              (CallAppendInputAudio(chunk) /\ ~connected) =>
                  gw_pc' = "idle"
        /\ (ApiAppendSend /\ ~connected) =>
              /\ gw_sent' = <<>>
              /\ exc' = NoExc
      ]_vars

\* The step in which connect() raises to its caller
ConnectRaises == gw_pc \in {"connect", "session_update"} /\ gw_pc' = "raised"

\* C15: when connect() fails (a configuration value is missing, or the
\* handshake or the session update fails) what it raises is a
\* ConnectionError, the client is left not connected and no event loop
\* has been started.
C15_ConnectFailsWithConnectionError ==
    [][ConnectRaises =>
          /\ IsConnectionError(exc')
          /\ ~connected'
          /\ ev_pc' = "off"
      ]_vars

\* The part of C15 that the code keeps: a failed connect() raises, leaves
\* the client not connected and starts no event loop.
ConnectFailureLeavesClientOff ==
    [][ConnectRaises =>
          /\ exc' # NoExc
          /\ ~connected'
          /\ ev_pc' = "off"
      ]_vars

\* The last call the caller made was send_user_message_content, and it is
\* over.
SendUserMessageContentOver ==
    /\ gw_pc = "idle"
    /\ gw_ops # <<>>
    /\ gw_ops[Len(gw_ops)] \in {"send_user_message_content", "create_response"}

\* The step in which send_user_message_content calls create_response
SendCallsCreateResponse ==
    /\ Len(gw_ops') > Len(gw_ops)
    /\ gw_ops'[Len(gw_ops')] = "create_response"

\* C16 as stated: every call of send_user_message_content on a connected
\* client whose upstream connection is open, whatever the responding flag,
\* ends with a response.create sent upstream as the last message of the
\* call.
C16_AlwaysSendsResponseCreate ==
    (SendUserMessageContentOver /\ connected /\ upstream_open) =>
        /\ gw_sent # <<>>
        /\ gw_sent[Len(gw_sent)] = ResponseCreateMsg

\* C16 amended: a call that does not raise has called create_response,
\* after the user item was sent when there was content and a connection;
\* a call whose item send raised has not called it.  create_response goes
\* on to its send only with a connection and the responding flag false, so
\* a response.create is the last message of the call only then.
C16_CallsCreateResponseAfterItem ==
    /\ [](SendUserMessageContentOver =>
            /\ exc = NoExc =>
                  /\ gw_ops[Len(gw_ops)] = "create_response"
                  /\ (payload.data # <<>> /\ connection) =>
                        /\ gw_sent # <<>>
                        /\ gw_sent[1].item_type = "message"
                        /\ gw_sent[1].role = "user"
                        /\ gw_sent[1].content = payload.data
                  /\ Len(gw_sent) <= 2
                  /\ \A i \in 1..Len(gw_sent) :
                        gw_sent[i] = ResponseCreateMsg => i = Len(gw_sent)
            /\ exc # NoExc =>
                  /\ exc = SendError
                  /\ gw_ops[Len(gw_ops)] = "send_user_message_content"
                  /\ gw_sent = <<>>)
    /\ [][SendCallsCreateResponse =>
            /\ gw_pc' = "api_create_send" <=> (connection /\ ~responding)
            /\ gw_pc' # "api_create_send" =>
                  /\ gw_pc' = "idle"
                  /\ UNCHANGED <<responding, outstanding>>
         ]_vars
    /\ [][gw_sent' # gw_sent /\ gw_sent' # <<>>
             /\ gw_sent'[Len(gw_sent')] = ResponseCreateMsg =>
                gw_pc = "api_create_send"]_vars

\* C16's case: a call made while the responding flag was set has sent its
\* user item and no response.create, and has returned.
C16_Witness ==
    /\ SendUserMessageContentOver
    /\ exc = NoExc
    /\ responding
    /\ connected
    /\ upstream_open
    /\ Len(gw_sent) = 1
    /\ gw_sent[1].type = "conversation.item.create"
    /\ gw_ops[Len(gw_ops)] = "create_response"

\* The step in which the Gateway takes a frame it cannot read
MalformedFrameTaken ==
    /\ frames_in' # frames_in
    /\ frames_in'[Len(frames_in')] = "Malformed"

\* C17: a malformed inbound frame is skipped: the Gateway is back at its
\* receive for the next frame, and it does not go on to disconnect the
\* upstream session.
C17_MalformedFrameSkipped ==
    [][MalformedFrameTaken =>
          /\ gw_pc' \in {"recv", "stop_send"}
          /\ UNCHANGED <<client_vars, gw_ops>>
      ]_vars

\* The step in which a send awaited by the Gateway for a frame fails
GatewaySendFails ==
    /\ gw_pc \in {"append_send", "commit_send", "create_send"}
    /\ gw_pc' # gw_pc
    /\ ~upstream_open

\* C18: when the send of append_input_audio, commit_audio or
\* create_response fails, the failure stays inside that operation: the
\* Gateway goes on with the frame and back to its receive (or to the
\* conversation-done close), and not to its cleanup and disconnect().
C18_SendFailureCaughtLocally ==
    [][GatewaySendFails =>
          /\ gw_pc' \in {"recv", "stop_send", "create_send"}
          /\ connected' = connected
      ]_vars

\* The part of C18 that the code keeps: a failed send of create_response
\* is caught by create_response, which clears the flag.
CreateResponseFailureCaught ==
    [][(GatewaySendFails /\ gw_pc = "create_send") =>
          /\ gw_pc' \in {"recv", "stop_send"}
          /\ ~responding'
      ]_vars

\* The step in which the handling of an upstream event raises: the send of
\* the function-call output or of the follow-up response request fails, or
\* an audio delta is not base64.
EventHandlingRaises ==
    \/ /\ ev_pc \in {"output_send", "response_send"}
       /\ ev_pc' # ev_pc
       /\ ~upstream_open
    \/ \E d \in AudioDeltas : EvAudioDelta(d) /\ ~B64Valid(d)

\* What only the event loop writes
EventLoopState ==
    <<ev_pc, event, n_events, ev_sent, cb_calls, pending_tool_calls,
      assistant_message, result, transcript, chat_history, conversation_done>>

\* C19: an exception raised while an upstream event is handled ends the
\* loop inside handle_response: nothing reaches the Gateway task, whose
\* position and exception are as before, and once the loop has ended no
\* later event is consumed and nothing the loop writes changes again.
C19_LoopExceptionEndsLoop ==
    [][ /\ EventHandlingRaises =>
              /\ ev_pc' = "ended"
              /\ UNCHANGED <<gw_vars, gw_obs>>
        /\ ev_pc = "ended" => UNCHANGED EventLoopState
      ]_vars

\* C19's case: the send of a function-call output has failed and ended the
\* loop, while the Gateway is still at its receive.
C19_Witness ==
    /\ ev_pc = "ended"
    /\ event.type = "response.function_call_arguments.done"
    /\ event.call_id \in DOMAIN pending_tool_calls
    /\ ev_sent = <<>>
    /\ gw_pc = "recv"
    /\ exc = NoExc

\* C20: an arguments-done event for a pending call whose name is not a
\* defined tool is dispatched to the literal result "Unknown tool" and
\* goes on to its sends; with the upstream open, the output item carries
\* the call id and that result, the response request follows it, the
\* entry is removed and the loop is back at its wait for the next event.
C20_UnknownToolAnswered ==
    [][ /\ \A cid \in CallIds :
              ( /\ ArgumentsDoneStep(cid)
                /\ cid \in DOMAIN pending_tool_calls
                /\ pending_tool_calls[cid] \notin DefinedTools ) =>
                  /\ result' = "Unknown tool"
                  /\ ev_pc' = "output_send"
        /\ ( /\ ev_pc \in {"output_send", "response_send"}
             /\ ev_pc' # ev_pc
             /\ pending_tool_calls[event.call_id] \notin DefinedTools
             /\ upstream_open ) =>
              IF ev_pc = "output_send"
              THEN /\ ev_pc' = "response_send"
                   /\ Len(ev_sent') = 1
                   /\ ev_sent'[1].item_type = "function_call_output"
                   /\ ev_sent'[1].call_id = event.call_id
                   /\ ev_sent'[1].output = <<"\"", "Unknown tool", "\"">>
              ELSE /\ ev_pc' = "wait"
                   /\ Len(ev_sent') = 2
                   /\ ev_sent'[2] = ResponseCreateMsg
                   /\ event.call_id \notin DOMAIN pending_tool_calls'
      ]_vars

\* C20's case: an undefined tool has been answered with "Unknown tool",
\* its entry is gone, and the loop waits for its next event with the
\* upstream open.
C20_Witness ==
    /\ ev_pc = "wait"
    /\ event.type = "response.function_call_arguments.done"
    /\ Len(ev_sent) = 2
    /\ ev_sent[1].call_id = event.call_id
    /\ ev_sent[1].output = JsonDumps("Unknown tool")
    /\ ev_sent[2] = ResponseCreateMsg
    /\ event.call_id \notin DOMAIN pending_tool_calls
    /\ upstream_open
    /\ Inputs < MaxInputs

\* The tool call being handled: the pending entry of the event's call id
\* has been dispatched and its sends are under way.
ToolCallDispatched ==
    /\ ev_pc \in {"output_send", "response_send"}
    /\ event.type = "response.function_call_arguments.done"
    /\ event.call_id \in DOMAIN pending_tool_calls

\* C21: check_payment_status returns "payment completed" when the
\* days-past-due value it is given equals zero and "payment not completed"
\* for every other value, and nothing else: whenever the tool has been
\* dispatched, its result is one of the two literals, and it is "payment
\* completed" exactly when the value read from the record is zero.
C21_PaymentStatusByZero ==
    ( /\ ToolCallDispatched
      /\ pending_tool_calls[event.call_id] = "check_payment_status" ) =>
        /\ result \in {"payment completed", "payment not completed"}
        /\ result = "payment completed" <=> GetDPD(customer_data) = 0

\* C21's case: the tool was called with a negative value and has answered
\* that the payment is not completed.
C21_Witness ==
    /\ ToolCallDispatched
    /\ pending_tool_calls[event.call_id] = "check_payment_status"
    /\ "DPD" \in DOMAIN customer_data
    /\ customer_data.DPD < 0
    /\ result = "payment not completed"

\* What a tool dispatch can return
ToolResults == {"payment completed", "payment not completed", "Unknown tool"}

\* The handling of an arguments-done event for call id cid with payload a
\* can leave the result r to be sent upstream as the call's output.
CanAnswer(cid, a, r) ==
    ENABLED ( /\ EvArgumentsDone(cid, a)
              /\ ev_pc' = "output_send"
              /\ result' = r )

\* C28: the output of a tool call does not depend on the arguments payload
\* of its arguments-done event.  From any state of a session (so with the
\* same stored record and the same pending tool name), whatever result the
\* handling of the event can give with one payload it gives with every
\* other payload; and the output item then sent upstream carries that
\* result and the event's call id, nothing of the payload.
C28_OutputIgnoresEventArguments ==
    /\ \A cid \in CallIds, r \in ToolResults :
          \A a, b \in ArgumentPayloads :
              CanAnswer(cid, a, r) => CanAnswer(cid, b, r)
    /\ (ev_pc = "response_send" /\ ev_sent # <<>>) =>
          ev_sent[1] =
              FunctionCallOutputMsg(
                  event.call_id,
                  Dispatch(pending_tool_calls[event.call_id],
                           [DPD |-> GetDPD(customer_data)]))

\* C28's case: the event's payload says five days past due, the stored
\* record says none, and the output sent upstream is the one for none.
C28_Witness ==
    /\ ev_pc = "response_send"
    /\ event.arguments = [DPD |-> 5]
    /\ GetDPD(customer_data) = 0
    /\ pending_tool_calls[event.call_id] = "check_payment_status"
    /\ ev_sent = <<FunctionCallOutputMsg(event.call_id, "payment completed")>>

\* C25: once the event loop is over (its stream has ended, or an exception
\* has ended it), is_connected() is false for the session.
C25_LoopEndMarksSessionClosed == ev_pc = "ended" => ~is_connected

\* The step that takes a response.done event, and the step in which the
\* text callback it awaits returns
ResponseDoneTaken == event'.type = "response.done" /\ n_events' = n_events + 1

TextCallbackReturns == ev_pc = "text_cb" /\ ev_pc' # "text_cb"

\* C29 as stated: a response.done taken with a non-empty transcript buffer
\* appends one assistant turn whose content is the buffered text and calls
\* the text callback once with that text; when the callback returns the
\* buffer is empty.
C29_NonEmptyBufferFinalizedAsIs ==
    [][ /\ (ResponseDoneTaken /\ transcript # <<>>) =>
              /\ chat_history' =
                    Append(chat_history, Message("assistant", transcript))
              /\ cb_calls' =
                    <<[handler |-> "response_handler", arg |-> transcript]>>
        /\ TextCallbackReturns => transcript' = <<>>
      ]_vars

\* C29: a response.done taken while the transcript buffer holds more than
\* whitespace appends exactly one assistant turn whose content is the
\* buffered text without its leading and trailing whitespace and calls the
\* text callback exactly once with that same text; while the callback runs
\* the history and the buffer stay as they are; when it returns, one Text
\* frame with that text in its text field has gone to the client (or none,
\* the client socket being gone) and the buffer is empty.  A response.done
\* taken with an empty or all-whitespace buffer appends nothing, calls
\* nothing and leaves the buffer as it is.
C29_BufferFinalizedStripped ==
    [][ /\ (ResponseDoneTaken /\ Strip(transcript) # <<>>) =>
              /\ chat_history' =
                    Append(chat_history,
                           Message("assistant", Strip(transcript)))
              /\ cb_calls' =
                    <<[handler |-> "response_handler",
                       arg |-> Strip(transcript)]>>
              /\ ev_pc' = "text_cb"
              /\ UNCHANGED <<transcript, ws_sent>>
        /\ (ResponseDoneTaken /\ Strip(transcript) = <<>>) =>
              /\ cb_calls' = <<>>
              /\ ev_pc' = "wait"
              /\ UNCHANGED <<chat_history, transcript, ws_sent>>
        /\ ev_pc = "text_cb" =>
              /\ UNCHANGED <<chat_history, cb_calls>>
              /\ transcript' \in {transcript, <<>>}
        /\ TextCallbackReturns =>
              /\ transcript' = <<>>
              /\ ev_pc' = "wait"
              /\ \/ ws_sent' =
                       Append(ws_sent,
                              [kind |-> "Text", text |-> Strip(transcript)])
                 \/ ~ClientSocketUsable /\ ws_sent' = ws_sent
      ]_vars

\* C29's case: two deltas, one of them whitespace, then response.done; the
\* turn, the callback and the Text frame hold the stripped text and the
\* buffer is empty.
C29_Witness ==
    /\ ev_pc = "wait"
    /\ event.type = "response.done"
    /\ n_events = 3
    /\ transcript = <<>>
    /\ chat_history = <<Message("assistant", <<"[END_">>)>>
    /\ cb_calls = <<[handler |-> "response_handler", arg |-> <<"[END_">>]>>
    /\ ws_sent = <<[kind |-> "Text", text |-> <<"[END_">>]>>

\* The step that takes a transcription-completed event, and the step in
\* which the debounce sleep ends and create_response() is called
TranscriptionTaken ==
    event'.type = "transcription.completed" /\ n_events' = n_events + 1

DebounceOver == ev_pc = "debounce" /\ ev_pc' # "debounce"

\* C30 as stated: every transcription-completed event appends one user turn
\* and goes on to the debounce delay and the response request.
C30_EveryTranscriptionAppendsTurn ==
    [][ TranscriptionTaken =>
            /\ Len(chat_history') = Len(chat_history) + 1
            /\ ev_pc' = "debounce"
      ]_vars

\* C30: a transcription-completed event whose transcript is not blank
\* appends one user turn, the transcript without its leading and trailing
\* whitespace, and sends nothing yet; after the debounce delay
\* create_response() is called, which sets the responding flag and sends
\* response.create when the flag was clear and a connection exists, and
\* does nothing otherwise; the turn is in the history, unchanged, all the
\* while, so the append precedes the request.  An event whose transcript is
\* blank appends nothing and requests nothing.
C30_TurnThenDebounceThenRequest ==
    /\ [][ /\ (TranscriptionTaken /\ Strip(event'.transcript) # <<>>) =>
                 /\ chat_history' =
                       Append(chat_history,
                              Message("user", Strip(event'.transcript)))
                 /\ ev_pc' = "debounce"
                 /\ ev_sent' = <<>>
                 /\ UNCHANGED <<responding, outstanding>>
           /\ (TranscriptionTaken /\ Strip(event'.transcript) = <<>>) =>
                 /\ ev_pc' = "wait"
                 /\ ev_sent' = <<>>
                 /\ UNCHANGED <<chat_history, responding, outstanding>>
           /\ DebounceOver =>
                 /\ UNCHANGED <<chat_history, ev_sent, outstanding>>
                 /\ IF connection /\ ~responding
                    THEN responding' /\ ev_pc' = "create_send"
                    ELSE responding' = responding /\ ev_pc' = "wait"
           /\ (ev_pc = "create_send" /\ ev_pc' # ev_pc) =>
                 /\ ev_pc' = "wait"
                 /\ UNCHANGED chat_history
                 /\ \/ /\ ev_sent' = <<ResponseCreateMsg>>
                       /\ outstanding' = outstanding + 1
                    \/ /\ ~upstream_open
                       /\ ~responding'
                       /\ UNCHANGED <<ev_sent, outstanding>>
         ]_vars
    /\ [](ev_pc \in {"debounce", "create_send"} =>
             /\ event.type = "transcription.completed"
             /\ chat_history # <<>>
             /\ chat_history[Len(chat_history)] =
                   Message("user", Strip(event.transcript)))

\* C30's case: a transcript with trailing whitespace was taken, the turn
\* was appended stripped, and after the debounce the request has gone
\* upstream.
C30_Witness ==
    /\ ev_pc = "wait"
    /\ event = [type |-> "transcription.completed",
                transcript |-> <<"hello", Space>>]
    /\ chat_history = <<Message("user", <<"hello">>)>>
    /\ ev_sent = <<ResponseCreateMsg>>
    /\ responding
    /\ outstanding = 1

\* The start-call requests answered so far
Started == 1..Len(http_responses)

\* Empty call metadata: the empty dict, or a pair of empty results
EmptyMetadata == {EmptyDict, TupleOf(EmptyList, EmptyList)}

\* C22: a start-call whose resolver failed (the primary path failed and the
\* fallback did not deliver either) is answered normally, run_ltfs_flow
\* having returned empty loan and disposition results, and the metadata
\* stored for its call id is empty.
C22_ResolverFailureTolerated ==
    \A i \in Started :
        http_responses[i].resolver = "failed" =>
            /\ http_responses[i].status = "COMPLETED"
            /\ http_responses[i].more_info = TupleOf(EmptyList, EmptyList)
            /\ session_store[http_responses[i].call_id].call_metadata
                  \in EmptyMetadata

\* The WebSocket handlers so far, and the one whose lookup and client
\* construction have raised
Handlers == 1..Len(handlers)

BuildFailed(h) ==
    /\ handlers[h].pc = "raised"
    /\ handlers[h].exc \in {"KeyError", "TypeError"}

\* C23: a handler whose call id has empty stored metadata gets past the
\* construction of its client (on to connect() and the receive loop).
C23_EmptyMetadataCallProceeds ==
    \A h \in Handlers :
        ( /\ handlers[h].pc # "accepted"
          /\ handlers[h].call_id \in DOMAIN session_store
          /\ session_store[handlers[h].call_id].call_metadata
                \in EmptyMetadata ) =>
            ~BuildFailed(h)

\* C24: no exception leaves a WebSocket handler.
C24_NothingLeavesHandler ==
    \A h \in Handlers : handlers[h].pc # "raised"

\* start_call has written the resolver's result for this call id
MetadataWritten(call_id) ==
    \E i \in Started :
        /\ http_responses[i].call_id = call_id
        /\ http_responses[i].status = "COMPLETED"
        /\ session_store[call_id].call_metadata = http_responses[i].more_info

\* C27: every WebSocket handler for a call id of the store, the one opened
\* by start_call's own task included, exists only once start_call has
\* written the resolver's result for that id, and what it reads is that
\* result; the tasks waiting to connect are for such ids only; and an
\* entry of the store, once start_call has ended, is never written again.
C27_ReadAfterMetadataWrite ==
    /\ [](/\ \A h \in Handlers :
                handlers[h].call_id \in DOMAIN session_store =>
                    /\ MetadataWritten(handlers[h].call_id)
                    /\ handlers[h].pc # "accepted" =>
                          handlers[h].session_data =
                              session_store[handlers[h].call_id].call_metadata
          /\ \A call_id \in tasks :
                /\ call_id \in DOMAIN session_store
                /\ MetadataWritten(call_id))
    /\ [][\A call_id \in DOMAIN session_store :
              session_store'[call_id] = session_store[call_id]]_vars

\* C27's case: the handler opened by start_call's own task has read the
\* row the resolver found, not the empty dict of the first write.
C27_Witness ==
    \E h \in Handlers :
        /\ handlers[h].opener = "task"
        /\ handlers[h].pc = "connect"
        /\ handlers[h].session_data = DictOf(PromptKeys \cup {"DPD"})
        /\ handlers[h].session_data # EmptyDict

\* The closing notifications the WSClient has shown
Notifications == { i \in 1..Len(ui) : ui[i] = ClosingNotification }

\* The endpoint has left its receive loop by an exception other than the
\* client's disconnect: it is past the loop, it has not closed the socket
\* for a finished conversation, and the client has not stopped.
UnexpectedExit ==
    /\ gw_pc \in {"cleanup", "aexit", "done"}
    /\ \A i \in 1..Len(ws_sent) : ws_sent[i] # CloseOp
    /\ ws_client.stop_pc = "off"

\* The WSClient shows the closing notification at most once.
NotifiedAtMostOnce == Cardinality(Notifications) <= 1

\* C26: when the endpoint has left its receive loop by an unexpected error
\* and has returned, so that the socket is closed, the client has had its
\* closing notification; and the WSClient shows the notification at most
\* once in a session.
C26_NotifiedBeforeSocketCloses ==
    /\ (UnexpectedExit /\ SocketClosedByServer) => Notifications # {}
    /\ NotifiedAtMostOnce

\* The function-call outputs sent upstream that say the payment is completed
CompletedOutputs ==
    { i \in 1..Len(ev_sent) :
        /\ ev_sent[i].type = "conversation.item.create"
        /\ ev_sent[i].output = JsonDumps("payment completed") }

\* C38: the output "payment completed" is sent upstream only when the
\* stored customer record carries a days-past-due value and that value is
\* zero; a record without a DPD field never yields it.
C38_CompletedOnlyWithStoredZero ==
    CompletedOutputs # {} =>
        /\ "DPD" \in DOMAIN customer_data
        /\ customer_data.DPD = 0

\* connect() has not pushed the session configuration: it is at its
\* handshake or at `await self.connection.session.update(...)`, or it has
\* raised from one of the two.
ConfigNotPushed == gw_pc \in {"connect", "session_update", "raised"}

\* C37: as long as connect() has not pushed the session configuration,
\* nothing else has been sent on the upstream connection (no append, commit,
\* response-create or item message, by the Gateway or by the event loop),
\* no client frame has been taken and no upstream event has been consumed.
C37_NothingBeforeSessionConfig ==
    ConfigNotPushed =>
        /\ gw_sent = <<>>
        /\ ev_sent = <<>>
        /\ gw_ops = <<>>
        /\ frames_in = <<>>
        /\ n_events = 0
        /\ event = NoEvent
        /\ outstanding = 0

\* C37's case: the upstream connection is open and self.connection is set,
\* so that a send would go out, and the configuration is still to be pushed.
C37_Witness ==
    /\ gw_pc = "session_update"
    /\ connection
    /\ upstream_open
    /\ ~connected

\* The Gateway has seen the flag set: its test after a frame has sent it to
\* the StopAudio send, or it has left its receive loop.
GatewayObservedDone ==
    gw_pc \in {"stop_send", "close", "cleanup", "aexit", "done"}

\* C33: once conversation_done is true it stays true: no step of the
\* session resets it to false before the Gateway has observed it.
C33_ConversationDoneSticky ==
    [][(conversation_done /\ ~GatewayObservedDone) => conversation_done']_vars

\* The endpoint has sent its StopAudio frame
StopAudioSent == \E i \in 1..Len(ws_sent) : ws_sent[i] = StopAudioFrame

\* C34: under fair scheduling of both tasks, once conversation_done is true
\* the Gateway eventually acts on it, whether or not the client sends
\* another frame: it sends StopAudio, or has left its receive loop, unless
\* the flag has been reset in the meantime.
C34_DoneLeadsToStop ==
    conversation_done ~>
        (StopAudioSent \/ GatewayObservedDone \/ ~conversation_done)

\* C35: after the Gateway's StopAudio frame, no Text or AudioData frame is
\* sent to the client on the WebSocket: nothing but the close follows the
\* StopAudio frame among the Gateway's sends.
C35_NoFrameAfterStopAudio ==
    \A i, j \in 1..Len(ws_sent) :
        (i < j /\ ws_sent[i] = StopAudioFrame) => ws_sent[j] = CloseOp

\* The handlers that exist: accepted, and neither returned nor raised
LiveHandlers ==
    { h \in 1..Len(handlers) : handlers[h].pc \notin {"done", "raised"} }

\* The handlers that hold a connected Realtime Session Client
Sessions == { h \in LiveHandlers : handlers[h].connected }

\* C36: at any time at most one WebSocket handler with its Realtime Session
\* Client exists per call id, and initiating a call does not by itself open
\* a realtime session: the socket of the task start_call creates never
\* holds one.
C36_OneSessionPerCallId ==
    /\ \A h1, h2 \in Sessions :
          handlers[h1].call_id = handlers[h2].call_id => h1 = h2
    /\ \A h \in Sessions : handlers[h].opener # "task"

\* The step in which a call of create_response, by the Gateway's task or
\* by the event loop, sends its response.create
CreateResponseSends ==
    /\ upstream_open
    /\ \/ gw_pc = "create_send" /\ gw_pc' # gw_pc
       \/ ev_pc = "create_send" /\ ev_pc' # ev_pc

\* C32: under every interleaving of the two tasks, calls of create_response
\* send at most one response.create between two consecutive clears of the
\* responding flag: when a call sends, no call has sent since the flag was
\* last cleared.
C32_OneCreatePerClear ==
    [][CreateResponseSends => ~requested]_vars

\* run_ltfs_flow has been called and its primary path ended as e
PrimaryEnded(e) == ltfs_run.made /\ PrimaryEnd(ltfs_run.ends) = e

\* The authenticate steps of the call made with credentials `with`
AuthenticateSteps(with) ==
    { i \in 1..Len(StepsMade(ltfs_run.ends)) :
        StepsMade(ltfs_run.ends)[i] = Step("authenticate", with) }

\* The backend answers every request made with the default credentials and
\* ids: a fallback that is attempted succeeds.
FallbackCanSucceed ==
    /\ ltfs_run.ends.default_authenticate = "ok"
    /\ ltfs_run.ends.default_get_loan_by_id = "ok"
    /\ ltfs_run.ends.default_get_disposition_by_id = "ok"

\* The steps of the call, as a set
StepsOfRun ==
    { StepsMade(ltfs_run.ends)[i] : i \in 1..Len(StepsMade(ltfs_run.ends)) }

\* The call has returned what its fallback fetched
ReturnsFallbackData ==
    /\ ltfs_run.result.raised = NoExc
    /\ Step("get_loan_by_id", "default") \in StepsOfRun
    /\ Step("get_disposition_by_id", "default") \in StepsOfRun

\* C31: run_ltfs_flow attempts the fallback exactly when its primary path
\* raised AuthenticationError or APIError.  When the primary path succeeds
\* it authenticates once and returns the primary results; when it fails it
\* authenticates once more, with the default credentials, and when that
\* fallback succeeds it returns the loan and disposition data the fallback
\* fetched.
C31_FallbackIffPrimaryFails ==
    ltfs_run.made =>
        /\ (AuthenticateSteps("default") # {}) <=> PrimaryEnded("declared")
        /\ PrimaryEnded("ok") =>
              ( /\ Cardinality(AuthenticateSteps("caller")) = 1
                /\ ltfs_run.result = Returns(TupleOf(Fetched, Fetched)) )
        /\ PrimaryEnded("declared") =>
              ( /\ Cardinality(AuthenticateSteps("default")) = 1
                /\ (FallbackCanSucceed => ReturnsFallbackData) )

=============================================================================
